---- MODULE Spec2Model ----
(***************************************************************************)
(* Verification model of iot-solar-sim: the Merkle digest builder          *)
(* (src/util/index.ts, aggregate service), the anchor retry coordinator    *)
(* (src/anchor/registry-adapter-client.ts), the PV telemetry model         *)
(* (model/pv-simulation.ts), the stored telemetry, hourly summaries and    *)
(* daily digests (ingest/telemetry-generator.ts, aggregate/) and the batch *)
(* scripts (scripts/seed.ts, backfill.ts, anchor.ts).                      *)
(*                                                                         *)
(* Conventions                                                             *)
(*  - a JavaScript string is a sequence of small naturals (its code        *)
(*    units); the default Array.prototype.sort order on strings is the     *)
(*    lexicographic order of those sequences;                              *)
(*  - sha256 is a concrete fixed-width digest over such strings (a         *)
(*    polynomial digest rendered as HashLen hex digits);                   *)
(*  - a JavaScript number is a record [nan, v]: NaN, or the value v in a   *)
(*    fixed-point unit stated at each use.                                 *)
(***************************************************************************)
EXTENDS Integers, Sequences, FiniteSets, TLC

VARIABLES
    mHashes,      \* the hashes array about to be given to buildMerkleRoot
    mFirst,       \* outcome of the first buildMerkleRoot call of this run
    mLast,        \* outcome of the latest buildMerkleRoot call
    mLastInput,   \* the array the latest call was given
    mFirstInput,  \* the array the first call was given
    mImpl,        \* which builder this run calls: "util" or "agg"
    aEnabled,     \* RegistryAdapterClient.enabled (config.anchorEnabled)
    aPc,          \* position of anchorDigestWithRetry: idle, attempt, sleep, done
    aMaxRetries,  \* its maxRetries parameter
    aAttempt,     \* its loop variable
    aLastError,   \* its lastError local (a message, or <<"undefined">>)
    aResults,     \* outcome of each anchorDigest call it has made, in order
    aSleeps,      \* delay (ms) of each backoff sleep it has started, in order
    aResult,      \* what anchorDigestWithRetry returned (or threw)
    aPosts,       \* number of POST /v1/anchor requests sent
    aCancel,      \* the caller has signalled cancellation
    aDirect,      \* outcome of the latest direct anchorDigest call
    tSite,        \* PVSimulationModel.site
    tRng,         \* PVSimulationModel.rng: state words, spare, draws made
    tOut,         \* outcome of the latest generateTelemetry call
    tAc,          \* the latest direct calculateAcPower call and its result
    tCalls,       \* generateTelemetry, calculateIrradiance calls made on this model
    tIrr,         \* the latest direct calculateIrradiance call and its result
    tBefore,      \* PVSimulationModel.rng as it was before the latest call
    wKind,        \* what the two twin instances are: "rng" or "model"
    wSeed,        \* the seed both twin instances are constructed with
    wSite,        \* the site both twin PVSimulationModel instances are given
    wRng,         \* the generator of each twin instance
    wScript,      \* the sequence of method calls the twins are put through
    wOut,         \* the values each twin instance has returned, in order
    sSites,       \* the site configuration given to each site's generator
    sSeed,        \* config.simSeed
    sAnchorEnabled, \* config.anchorEnabled
    sTelemetry,   \* the telemetry table: rows in insertion order
    sSummaries,   \* the hourlySummary table
    sDigests,     \* the dailyDigest table
    sLast,        \* the latest operation on the store and what it returned
    sOps,         \* number of operations performed
    sDigested,    \* per site-day: the row hashes the stored digest was built from
    sSubmitted,   \* per site-day: the merkleRoot given to the anchor call whose
                  \* result is written on the stored digest (<<>>: none)
    bScript,      \* the batch script running: "none", "seed", "backfill", "anchor"
    bList,        \* the site ids the script loops over
    bForce,       \* its --force option
    bPos,         \* index in bList of the site the for loop is at
    bDay,         \* backfill: index of the day the while loop is at
    bVisited,     \* loop iterations entered so far: site, day, how they ended
    bAborted,     \* an exception has left the loop
    bSeeds,       \* the seed each generator was constructed with, per site
    hRows,        \* the two telemetry records given to hashTelemetryRow
    hHashes,      \* the row hash returned for each of them
    qPc,          \* per generate request: where its handler is
    qInterval,    \* per generate request: its intervalMinutes
    qPending,     \* per generate request: records storeTelemetry has yet to upsert
    qDigest,      \* per generate request: the digest it has built and not yet stored
    lPc,          \* generateTelemetry's loop: where the call is
    lCaller,      \* who called and with which interval argument
    lStepMs,      \* intervalMinutes in milliseconds, as addMinutes adds it
    lEndMs,       \* endDate.getTime() relative to the start of the day
    lCurrentMs,   \* currentDate.getTime() relative to the start of the day
    lRecords      \* tsUtc of the records pushed so far

merkleVars == <<mHashes, mFirst, mLast, mLastInput, mFirstInput, mImpl>>

anchorVars == <<aEnabled, aPc, aMaxRetries, aAttempt, aLastError, aResults,
                aSleeps, aResult, aPosts, aCancel, aDirect>>

telemetryVars == <<tSite, tRng, tOut, tAc, tCalls, tIrr, tBefore>>

twinVars == <<wKind, wSeed, wSite, wRng, wScript, wOut>>

storeVars == <<sSites, sSeed, sAnchorEnabled, sTelemetry, sSummaries, sDigests,
               sLast, sOps, sDigested, sSubmitted>>

batchVars == <<bScript, bList, bForce, bPos, bDay, bVisited, bAborted, bSeeds>>

hashVars == <<hRows, hHashes>>

reqVars == <<qPc, qInterval, qPending, qDigest>>

loopVars == <<lPc, lCaller, lStepMs, lEndMs, lCurrentMs, lRecords>>

vars == <<merkleVars, anchorVars, telemetryVars, twinVars, storeVars, batchVars,
    hashVars, reqVars, loopVars>>

notMerkleVars == <<anchorVars, telemetryVars, twinVars, storeVars, batchVars,
    hashVars, reqVars, loopVars>>

notAnchorVars == <<merkleVars, telemetryVars, twinVars, storeVars, batchVars,
    hashVars, reqVars, loopVars>>

notTelemetryVars == <<merkleVars, anchorVars, twinVars, storeVars, batchVars,
    hashVars, reqVars, loopVars>>

notTwinVars == <<merkleVars, anchorVars, telemetryVars, storeVars, batchVars,
    hashVars, reqVars, loopVars>>

notStoreVars == <<merkleVars, anchorVars, telemetryVars, twinVars, batchVars,
    hashVars, reqVars, loopVars>>

\* the batch scripts work on the tables of the store
notBatchVars == <<merkleVars, anchorVars, telemetryVars, twinVars,
    hashVars, reqVars, loopVars>>

notLoopVars == <<merkleVars, anchorVars, telemetryVars, twinVars, storeVars, batchVars,
                 hashVars, reqVars>>

\* the requests work on the tables of the store
notReqVars == <<merkleVars, anchorVars, telemetryVars, twinVars, batchVars, hashVars,
    loopVars>>

notHashVars == <<merkleVars, anchorVars, telemetryVars, twinVars, storeVars,
                 batchVars, reqVars, loopVars>>

-----------------------------------------------------------------------------
(* Bounds *)

MaxLeaves == 3

\* largest maxRetries argument a caller passes
MaxRetriesArg == 4

\* generateTelemetry calls made on one model
MaxGenerate == 2

\* method calls each twin instance is put through
MaxTwinCalls == 3

\* operations performed on the store in one run
MaxStoreOps == 4

\* records generateTelemetry can hold before the process runs out of memory
MaxPasses == 300

-----------------------------------------------------------------------------
(* Strings and hashing: src/util/index.ts *)

HexBase == 16

\* Bytes in a digest; the model's digest is DigestBytes bytes wide and is
\* rendered as 2 * DigestBytes hex digits.
DigestBytes == 4

ByteModulus == 256

\* Row hashes offered to the builder (strings of hex digits).
LeafSet == { <<1>>, <<2>>, <<1, 0>>, <<3, 5>> }

\* Each digest byte is a polynomial of the input with its own multiplier,
\* so that the digest has no collision on the strings the model hashes.
DigestMultipliers == <<31, 37, 41, 43>>

RECURSIVE powMod(_, _)
\* mult^k modulo ByteModulus
powMod(mult, k) ==
    IF k = 0 THEN 1
    ELSE ((powMod(mult, k \div 2) ^ 2) * (IF k % 2 = 1 THEN mult ELSE 1)) % ByteModulus

RECURSIVE digestAcc(_, _, _)
\* acc after absorbing s: each element e turns acc into acc * mult + e + 1;
\* the two halves of s are absorbed separately and combined
digestAcc(mult, acc, s) ==
    IF s = <<>> THEN acc
    ELSE IF Len(s) = 1 THEN (acc * mult + s[1] + 1) % ByteModulus
    ELSE (digestAcc(mult, acc, SubSeq(s, 1, Len(s) \div 2))
            * powMod(mult, Len(s) - Len(s) \div 2)
          + digestAcc(mult, 0, SubSeq(s, Len(s) \div 2 + 1, Len(s)))) % ByteModulus

\* createHash('sha256').update(data).digest(): the digest bytes
sha256Bytes(data) ==
    [ i \in 1..DigestBytes |-> digestAcc(DigestMultipliers[i], 5 + 2 * i, data) ]

RECURSIVE hexOf(_)
hexOf(bytes) ==
    IF bytes = <<>> THEN <<>>
    ELSE << Head(bytes) \div HexBase, Head(bytes) % HexBase >> \o hexOf(Tail(bytes))

\* sha256(data): createHash('sha256').update(data).digest('hex')
sha256(data) == hexOf(sha256Bytes(data))

\* a < b in the code-unit order used by Array.prototype.sort()
RECURSIVE StrLess(_, _)
StrLess(a, b) ==
    IF b = <<>> THEN FALSE
    ELSE IF a = <<>> THEN TRUE
    ELSE IF Head(a) # Head(b) THEN Head(a) < Head(b)
    ELSE StrLess(Tail(a), Tail(b))

RECURSIVE insertSorted(_, _)
insertSorted(x, s) ==
    IF s = <<>> THEN <<x>>
    ELSE IF StrLess(x, Head(s)) THEN <<x>> \o s
    ELSE <<Head(s)>> \o insertSorted(x, Tail(s))

RECURSIVE sortStrings(_)
\* [...hashes].sort()
sortStrings(s) ==
    IF s = <<>> THEN <<>>
    ELSE insertSorted(Head(s), sortStrings(Tail(s)))

RECURSIVE merkleLevelDropOdd(_)
\* The last entry of an odd level left out of the next level.
merkleLevelDropOdd(level) ==
    IF Len(level) < 2 THEN <<>>
    ELSE <<sha256(level[1] \o level[2])>>
         \o merkleLevelDropOdd(SubSeq(level, 3, Len(level)))

\* One pass of the for loop: pair adjacent entries, duplicating the last
\* entry of an odd level (`currentLevel[i + 1] || left`: an absent or empty
\* right sibling is replaced by the left one).
RECURSIVE merkleLevel(_)
merkleLevel(level) ==
    IF level = <<>> THEN <<>>
    ELSE LET left  == level[1]
             right == IF Len(level) >= 2 /\ level[2] # <<>>
                      THEN level[2] ELSE left
             rest  == IF Len(level) >= 2 THEN SubSeq(level, 3, Len(level))
                      ELSE <<>>
         IN  <<sha256(left \o right)>> \o merkleLevel(rest)

RECURSIVE merkleReduce(_)
\* while (currentLevel.length > 1) { ... }  return currentLevel[0]
merkleReduce(level) ==
    IF Len(level) <= 1 THEN level[1]
    ELSE merkleReduce(merkleLevel(level))

\* Outcome of a call: a returned string, or a thrown error.
Returned(v) == [kind |-> "returned", value |-> v]

Thrown == [kind |-> "thrown", value |-> <<>>]

NoCall == [kind |-> "none", value |-> <<>>]

\* A single hash paired with itself, as the last entry of an odd level is.
buildMerkleRootPairSingle(hashes) ==
    IF Len(hashes) = 0 THEN Returned(sha256(<<>>))
    ELSE IF Len(hashes) = 1 THEN Returned(sha256(hashes[1] \o hashes[1]))
    ELSE Returned(merkleReduce(sortStrings(hashes)))

\* The leaves paired in retrieval order, without the sort.
buildMerkleRootUnsorted(hashes) ==
    IF Len(hashes) = 0 THEN Returned(sha256(<<>>))
    ELSE IF Len(hashes) = 1 THEN Returned(hashes[1])
    ELSE Returned(merkleReduce(hashes))

\* export function buildMerkleRoot(hashes: string[]): string
buildMerkleRoot(hashes) ==
    IF Len(hashes) = 0 THEN Returned(sha256(<<>>))
    ELSE IF Len(hashes) = 1 THEN Returned(hashes[1])
    ELSE Returned(merkleReduce(sortStrings(hashes)))

\* AggregationService.buildMerkleRoot (private, aggregate service)
aggBuildMerkleRoot(hashes) ==
    IF Len(hashes) = 0 THEN Returned(<<>>)
    ELSE Returned(merkleReduce(sortStrings(hashes)))

MerkleImpl(impl, hashes) ==
    IF impl = "util" THEN buildMerkleRoot(hashes) ELSE aggBuildMerkleRoot(hashes)

-----------------------------------------------------------------------------
(* JavaScript values *)

\* A number: finite (v in the fixed-point unit of its use), NaN, +Infinity;
\* `undefined` and `null` are the other two values a slot can hold.
Num(v) == [t |-> "num", v |-> v]

NaN == [t |-> "nan", v |-> 0]

PosInf == [t |-> "inf", v |-> 0]

NegInf == [t |-> "ninf", v |-> 0]

Undefined == [t |-> "undef", v |-> 0]

Null == [t |-> "null", v |-> 0]

IsNum(x) == x.t = "num"

\* Math.round(n / d) for d > 0: the nearest integer, ties toward +Infinity
RoundDiv(n, d) == (2 * n + d) \div (2 * d)

NaNLike(x) == x.t \in {"nan", "undef", "null"}

\* x || y of JavaScript: NaN, undefined, null and 0 are falsy
orElse(x, y) == IF NaNLike(x) \/ (IsNum(x) /\ x.v = 0) THEN y ELSE x

\* position of a number on the extended line (finite values are far
\* smaller than Huge)
Huge == 100000000

Key(x) == CASE x.t = "inf" -> Huge [] x.t = "ninf" -> 0 - Huge [] OTHER -> x.v

\* x <= y, x >= y on numbers: false as soon as one side is NaN or undefined
NumLeq(x, y) == ~NaNLike(x) /\ ~NaNLike(y) /\ Key(x) <= Key(y)

NumGeq(x, y) == NumLeq(y, x)

\* Math.min(x, y): NaN when an argument is NaN or undefined
MathMin(x, y) ==
    IF NaNLike(x) \/ NaNLike(y) THEN NaN
    ELSE IF Key(x) <= Key(y) THEN x ELSE y

\* Math.max(x, y)
MathMax(x, y) ==
    IF NaNLike(x) \/ NaNLike(y) THEN NaN
    ELSE IF Key(x) >= Key(y) THEN x ELSE y

\* clamp(value, min, max) == Math.min(Math.max(value, min), max)
clamp(value, lo, hi) == MathMin(MathMax(value, lo), hi)

\* roundToDecimals(value, decimals), the value held in units of
\* 1 / (scale * 10^decimals): Math.round(value * factor) / factor
roundToDecimals(value, scale) ==
    IF IsNum(value) THEN Num(RoundDiv(value.v, scale)) ELSE value

-----------------------------------------------------------------------------
(* Character strings of the site configuration ("03:30", "MON,TUE"). *)

DigitVal ==
    [ c \in {"0", "1", "2", "3", "4", "5", "6", "7", "8", "9"} |->
        CASE c = "0" -> 0 [] c = "1" -> 1 [] c = "2" -> 2 [] c = "3" -> 3
          [] c = "4" -> 4 [] c = "5" -> 5 [] c = "6" -> 6 [] c = "7" -> 7
          [] c = "8" -> 8 [] OTHER -> 9 ]

\* the leading decimal digits of s
RECURSIVE leadingDigits(_)
leadingDigits(s) ==
    IF s = <<>> \/ Head(s) \notin DOMAIN DigitVal THEN <<>>
    ELSE <<Head(s)>> \o leadingDigits(Tail(s))

\* s without its leading white space
RECURSIVE trimStart(_)
trimStart(s) == IF s # <<>> /\ Head(s) = " " THEN trimStart(Tail(s)) ELSE s

\* timeStr.split(':')
RECURSIVE splitAcc(_, _, _)
splitAcc(s, sep, cur) ==
    IF s = <<>> THEN <<cur>>
    ELSE IF Head(s) = sep THEN <<cur>> \o splitAcc(Tail(s), sep, <<>>)
    ELSE splitAcc(Tail(s), sep, Append(cur, Head(s)))

split(s, sep) == splitAcc(s, sep, <<>>)

RECURSIVE digitsValue(_, _)
digitsValue(s, acc) ==
    IF s = <<>> THEN acc
    ELSE digitsValue(Tail(s), acc * 10 + DigitVal[Head(s)])

\* parseInt(s): white space, a sign and decimal digits are read from the
\* front of s and the rest is ignored; NaN when no digit is found
parseInt(s) ==
    LET t == trimStart(s)
        signed == t # <<>> /\ Head(t) \in {"-", "+"}
        digits == leadingDigits(IF signed THEN Tail(t) ELSE t)
    IN  IF digits = <<>> THEN NaN
        ELSE IF signed /\ Head(t) = "-" THEN Num(0 - digitsValue(digits, 0))
        ELSE Num(digitsValue(digits, 0))

\* Number(part): decimal digits give their value, "" gives 0, anything
\* else NaN
NumberOf(part) ==
    IF \A i \in 1..Len(part) : part[i] \in DOMAIN DigitVal
    THEN Num(digitsValue(part, 0))
    ELSE NaN

\* pattern.includes(sub)
includes(pattern, sub) ==
    \E i \in 1..(Len(pattern) - Len(sub) + 1) :
        SubSeq(pattern, i, i + Len(sub) - 1) = sub

\* The characters of the strings that are hashed, each with its code: the
\* hex digits are 0..15, as in the digests.
Alphabet ==
    << "0", "1", "2", "3", "4", "5", "6", "7", "8", "9",
       "a", "b", "c", "d", "e", "f",
       ".", "-", "|", "x", "T", ":", "Z",
       "N", "O", "K", "U", "A", "G", "E", "C", "R", "I", "L", "D", "P", "J",
       "n", "i", "t", "y" >>

\* the code of each character
CodeOf ==
    [c \in {Alphabet[i] : i \in 1..Len(Alphabet)} |->
        (CHOOSE i \in 1..Len(Alphabet) : Alphabet[i] = c) - 1]

code(c) == CodeOf[c]

encode(chars) == [i \in 1..Len(chars) |-> code(chars[i])]

RECURSIVE decimalString(_)
\* n.toString() for a non-negative integer: its decimal digits
decimalString(n) ==
    IF n < 10 THEN <<n>> ELSE Append(decimalString(n \div 10), n % 10)

RECURSIVE padStart(_, _)
\* String(n).padStart(width, '0')
padStart(ds, width) == IF Len(ds) >= width THEN ds ELSE padStart(<<0>> \o ds, width)

\* A number with digits beyond the precision of its use: sign, magnitude v
\* in units of 10^-decimals, and the next decimal digit sub.
Fine(neg, v, sub) == [t |-> "fine", neg |-> neg, v |-> v, sub |-> sub]

\* the number rounded to the precision of its use, in units of
\* 10^-decimals (-0 and 0 are the same number)
Rounded(x) ==
    IF x.t = "fine"
    THEN (IF x.neg THEN 0 - 1 ELSE 1) * (x.v + (IF x.sub >= 5 THEN 1 ELSE 0))
    ELSE x.v

\* x < 0
Negative(x) ==
    IF x.t = "fine" THEN x.neg /\ (x.v > 0 \/ x.sub > 0) ELSE x.t = "num" /\ x.v < 0

\* value.toFixed(decimals) of a value held in units of 10^-decimals: sign,
\* integer digits, ".", `decimals` fraction digits; the sign is that of the
\* value before rounding ("If x < 0, then set s to "-" and x = -x"), the
\* digits are those of the nearest multiple of 10^-decimals, the larger one
\* at a tie; NaN and the infinities format as their names
toFixed(x, decimals) ==
    CASE x.t = "num" ->
            LET a == IF x.v < 0 THEN 0 - x.v ELSE x.v
            IN  (IF x.v < 0 THEN encode(<<"-">>) ELSE <<>>)
                \o decimalString(a \div (10 ^ decimals))
                \o encode(<<".">>)
                \o padStart(decimalString(a % (10 ^ decimals)), decimals)
      [] x.t = "fine" ->
            LET n == x.v + (IF x.sub >= 5 THEN 1 ELSE 0)
            IN  (IF Negative(x) THEN encode(<<"-">>) ELSE <<>>)
                \o decimalString(n \div (10 ^ decimals))
                \o encode(<<".">>)
                \o padStart(decimalString(n % (10 ^ decimals)), decimals)
      [] x.t = "inf"  -> encode(<<"I","n","f","i","n","i","t","y">>)
      [] x.t = "ninf" -> encode(<<"-","I","n","f","i","n","i","t","y">>)
      [] OTHER        -> encode(<<"N","a","N">>)

RECURSIVE join(_, _)
\* parts.join(sep)
join(parts, sep) ==
    IF parts = <<>> THEN <<>>
    ELSE IF Len(parts) = 1 THEN parts[1]
    ELSE parts[1] \o sep \o join(Tail(parts), sep)

\* date.toISOString() of a timestamp [dow, hour, minute]: "dThh:mmZ"
toISOString(date) ==
    <<date.dow>> \o encode(<<"T">>) \o padStart(decimalString(date.hour), 2)
    \o encode(<<":">>) \o padStart(decimalString(date.minute), 2) \o encode(<<"Z">>)

\* String(value): every digit of the value
toStringRaw(x, decimals) ==
    IF x.t = "fine"
    THEN toFixed(Fine(x.neg, x.v, 0), decimals) \o <<x.sub>>
    ELSE toFixed(x, decimals)

\* The raw values joined in place of their fixed-precision renderings.
hashTelemetryRowRaw(siteId, tsUtc, acEnergyKwh, acPowerKw, poaIrrWm2, tempC, status) ==
    sha256(join(<< siteId, tsUtc, toStringRaw(acEnergyKwh, 3), toStringRaw(acPowerKw, 3),
                   toStringRaw(poaIrrWm2, 1), toStringRaw(tempC, 1), status >>,
                encode(<<"|">>)))

\* The status left out of the joined fields.
hashTelemetryRowNoStatus(siteId, tsUtc, acEnergyKwh, acPowerKw, poaIrrWm2, tempC, status) ==
    sha256(join(<< siteId, tsUtc, toFixed(acEnergyKwh, 3), toFixed(acPowerKw, 3),
                   toFixed(poaIrrWm2, 1), toFixed(tempC, 1) >>,
                encode(<<"|">>)))

\* hashTelemetryRow(siteId, tsUtc, acEnergyKwh, acPowerKw, poaIrrWm2, tempC,
\* status): energy in Wh and power in W (three decimals of kWh, kW),
\* irradiance and temperature in tenths
hashTelemetryRow(siteId, tsUtc, acEnergyKwh, acPowerKw, poaIrrWm2, tempC, status) ==
    sha256(join(<< siteId, tsUtc, toFixed(acEnergyKwh, 3), toFixed(acPowerKw, 3),
                   toFixed(poaIrrWm2, 1), toFixed(tempC, 1), status >>,
                encode(<<"|">>)))

-----------------------------------------------------------------------------
(* DeterministicRNG: src/util/index.ts.  The four state words are modelled *)
(* WordBits wide (one digest byte each) instead of 32 bits.                *)

WordBits == 8

WordModulus == 256

\* new DeterministicRNG(seed)
newRng(seed) ==
    LET hash == sha256Bytes(decimalString(seed))
    IN  [state |-> <<hash[1], hash[2], hash[3], hash[4]>>,
         spare |-> Null,
         draws |-> 0]

\* r = a * 5; r = ((r << 7) | (r >>> 25)) * 9; (r >>> 0) / 0x100000000
\* on WordBits-wide words: the value returned, as a multiple of 1/WordModulus
nextValue(state) ==
    LET a    == state[1]
        r1   == (a * 5) % WordModulus
        rotl == ((r1 * (2 ^ 7)) % WordModulus) + (r1 \div (2 ^ (WordBits - 7)))
    IN  (rotl * 9) % WordModulus

\* state after next(): the code writes a, b, c, d back unchanged
nextState(state) ==
    <<state[1], state[2], state[3], state[4]>>

\* next(): the value drawn and the generator afterwards (draws counts calls)
rngNext(rng) ==
    [v   |-> nextValue(rng.state),
     rng |-> [rng EXCEPT !.state = nextState(rng.state), !.draws = @ + 1]]

\* Box-Muller terms for draws u1, u2 (multiples of 1/WordModulus).  The
\* transcendental functions are replaced by piecewise-linear stand-ins of
\* the same range, sign and singular points:
\*   mag = sqrt(-2 ln u1)    tenths; +Infinity at u1 = 0
\*   cos(2 pi u2), sin(2 pi u2)   hundredths; sin is exactly 0 only at u2 = 0
boxMullerMag(u1) ==
    IF u1 = 0 THEN PosInf ELSE Num(33 - (32 * u1) \div WordModulus)

cosTurn(u2) ==
    LET c == IF u2 <= 128 THEN 100 - (200 * u2) \div 128
             ELSE (200 * (u2 - 128)) \div 128 - 100
    IN  IF c = 0 THEN (IF u2 < 128 THEN 1 ELSE -1) ELSE c

sinTurn(u2) ==
    LET s == cosTurn((u2 + 192) % WordModulus)
    IN  IF u2 = 0 THEN 0 ELSE s

\* mag * trig, in thousandths (Infinity * 0 is NaN)
magTimes(mag, trig) ==
    IF mag.t = "inf"
    THEN (IF trig = 0 THEN NaN ELSE IF trig > 0 THEN PosInf ELSE NegInf)
    ELSE Num(mag.v * trig)

\* value * stdDev + mean, value in thousandths, the result in hundredths
scaleNormal(value, mean, stdDev) ==
    IF IsNum(value) THEN Num(RoundDiv(value.v * stdDev, 10) + mean) ELSE value

\* normal(mean, stdDev): returns the cached spare, or draws two values
rngNormal(rng, mean, stdDev) ==
    IF rng.spare.t # "null"
    THEN [v   |-> scaleNormal(rng.spare, mean, stdDev),
          rng |-> [rng EXCEPT !.spare = Null]]
    ELSE LET d1  == rngNext(rng)
             d2  == rngNext(d1.rng)
             mag == boxMullerMag(d1.v)
         IN  [v   |-> scaleNormal(magTimes(mag, cosTurn(d2.v)), mean, stdDev),
              rng |-> [d2.rng EXCEPT !.spare = magTimes(mag, sinTurn(d2.v))]]

-----------------------------------------------------------------------------
(* PVSimulationModel: src/model/pv-simulation.ts.                          *)
(* Units: irradiance and temperature in tenths, power in W (kW / 1000),    *)
(* energy in Wh, inverter efficiency in thousandths, curtailmentPct in     *)
(* multiples of 1/WordModulus, times of day in minutes.                    *)

\* A timestamp: UTC weekday (0 = Sunday), hour and minute.
Timestamps == [dow : {0, 1}, hour : {3, 12}, minute : {0, 30, 45}]

\* The solar geometry of lines 33-95 is tabulated per UTC hour for the
\* modelled latitude: whether the elevation is above 0, and the
\* plane-of-array irradiance before clouds (W/m2).
SunAboveHorizon(date) == date.hour \in 6..17

clearSkyPoa(date) == IF date.hour = 12 THEN 900 ELSE 300

\* seasonalVariation * dailyVariation of calculateCloudVariation, in tenths
cloudBase(date) == IF date.hour = 12 THEN 9 ELSE 5

\* baseTemp + seasonalVariation + dailyVariation, in hundredths of a degree
tempBase(date) == IF date.hour = 12 THEN 3300 ELSE 1450

\* dailyVariation of calculateWindSpeed, in multiples of 1/WordModulus m/s
windBase(date) == IF date.hour = 12 THEN 5 * WordModulus ELSE 0 - WordModulus \div 8

\* range(min, max) == min + next() * (max - min), in 1/WordModulus of the
\* unit of min and max
rngRange(rng, lo, hi) ==
    LET d == rngNext(rng)
    IN  [v |-> lo * WordModulus + d.v * (hi - lo), rng |-> d.rng]

\* int(min, max) == Math.floor(this.range(min, max + 1))
rngInt(rng, lo, hi) ==
    LET r == rngRange(rng, lo, hi + 1)
    IN  [v |-> r.v \div WordModulus, rng |-> r.rng]

\* boolean(probability) == this.next() < probability, the probability in
\* multiples of 1/WordModulus
rngBoolean(rng, probability) ==
    LET d == rngNext(rng)
    IN  [v |-> d.v < probability, rng |-> d.rng]

\* choice(array) == array[this.int(0, array.length - 1)]
rngChoice(rng, array) ==
    LET i == rngInt(rng, 0, Len(array) - 1)
    IN  [v |-> array[i.v + 1], rng |-> i.rng]

\* calculateCloudVariation(date), in multiples of 1/25600
calculateCloudVariation(rng, date) ==
    LET randomFactor == rngRange(rng, 3, 12)       \* range(0.3, 1.2)
    IN  [v   |-> clamp(Num(cloudBase(date) * randomFactor.v), Num(2560), Num(25600)),
         rng |-> randomFactor.rng]

\* The cloud variation drawn before the elevation is tested.
calculateIrradianceCloudFirst(rng, date) ==
    LET cloud == calculateCloudVariation(rng, date)
        finalPoaIrr == MathMax(Num(0), Num(clearSkyPoa(date) * cloud.v.v * 10))
    IN  IF ~SunAboveHorizon(date) THEN [v |-> Num(0), rng |-> cloud.rng]
        ELSE [v |-> roundToDecimals(finalPoaIrr, 25600), rng |-> cloud.rng]

\* calculateIrradiance(date): tenths of W/m2
calculateIrradiance(rng, date) ==
    IF ~SunAboveHorizon(date) THEN [v |-> Num(0), rng |-> rng]
    ELSE LET cloud == calculateCloudVariation(rng, date)
             finalPoaIrr == MathMax(Num(0), Num(clearSkyPoa(date) * cloud.v.v * 10))
         IN  [v |-> roundToDecimals(finalPoaIrr, 25600), rng |-> cloud.rng]

\* calculateTemperature(date): tenths of a degree
calculateTemperature(rng, date) ==
    LET randomVariation == rngNormal(rng, 0, 2)
        tempC == IF IsNum(randomVariation.v)
                 THEN Num(tempBase(date) + randomVariation.v.v)
                 ELSE randomVariation.v
    IN  [v   |-> roundToDecimals(clamp(tempC, Num(-1000), Num(5000)), 10),
         rng |-> randomVariation.rng]

\* calculateWindSpeed(date): tenths of m/s
calculateWindSpeed(rng, date) ==
    LET randomVariation == rngRange(rng, 0, 5)
        windMps == MathMax(Num(0), Num((windBase(date) + randomVariation.v) * 10))
    IN  [v |-> roundToDecimals(windMps, WordModulus), rng |-> randomVariation.rng]

\* calculateDcPower(poaIrrWm2, tempC):
\*   poa * (modules * 2) * 0.20 * (1 - 0.004 * (tempC - 25)) / 1000 kW
\*   = poa10 * modules * (2750 - temp10) / 62500 W
calculateDcPower(site, poaIrrWm2, tempC) ==
    IF ~IsNum(poaIrrWm2) \/ ~IsNum(tempC) THEN NaN
    ELSE LET dcPower == poaIrrWm2.v * site.modules * (2750 - tempC.v)
         IN  IF dcPower <= 0 THEN Num(0) ELSE Num(RoundDiv(dcPower, 62500))

\* calculateAcPower(dcPowerKw): Math.min(dc * inverterEff, this.site.capacityAcKw)
calculateAcPower(site, dcPowerKw) ==
    IF ~IsNum(dcPowerKw) THEN NaN
    ELSE LET acPowerKw == Num(dcPowerKw.v * site.inverterEff)
             limit == IF IsNum(site.capacityAcKw)
                      THEN Num(site.capacityAcKw.v * 1000)
                      ELSE site.capacityAcKw
         IN  roundToDecimals(MathMin(acPowerKw, limit), 1000)

\* calculateEnergy(acPowerKw, intervalMinutes)
calculateEnergy(acPowerKw, intervalMinutes) ==
    IF ~IsNum(acPowerKw) THEN NaN
    ELSE roundToDecimals(Num(acPowerKw.v * intervalMinutes), 60)

\* parseTime(timeStr): hours + minutes / 60, in minutes; NaN when a part is
\* missing or not a number
parseTime(timeStr) ==
    LET parts   == split(timeStr, ":")
        hours   == NumberOf(parts[1])
        minutes == IF Len(parts) >= 2 THEN NumberOf(parts[2]) ELSE Undefined
    IN  IF IsNum(hours) /\ IsNum(minutes)
        THEN Num(hours.v * 60 + minutes.v) ELSE NaN

dayNames ==
    << <<"S","U","N">>, <<"M","O","N">>, <<"T","U","E">>, <<"W","E","D">>,
       <<"T","H","U">>, <<"F","R","I">>, <<"S","A","T">> >>

\* matchesDayPattern(dayOfWeek, pattern)
matchesDayPattern(dayOfWeek, pattern) ==
    includes(pattern, dayNames[dayOfWeek + 1]) \/ pattern = <<"A","L","L">>

timeOfDay(date) == Num(date.hour * 60 + date.minute)

\* the body of checkOutage's loop for one window
windowActive(date, window) ==
    /\ NumGeq(timeOfDay(date), parseTime(window.start))
    /\ NumLeq(timeOfDay(date), parseTime(window.end))
    /\ matchesDayPattern(date.dow, window.days)

\* checkOutage(date).  Iterating a string (the stored JSON text of a site
\* row) yields its characters, whose `start` is undefined: parseTime throws.
checkOutage(site, date) ==
    IF site.outageWindows.t = "string"
    THEN [threw |-> Len(site.outageWindows.items) > 0, v |-> FALSE]
    ELSE [threw |-> FALSE,
          v |-> \E i \in 1..Len(site.outageWindows.items) :
                  windowActive(date, site.outageWindows.items[i])]

\* checkCurtailment(): this.rng.next() < this.site.curtailmentPct
checkCurtailment(site, rng) ==
    LET d == rngNext(rng)
    IN  [v |-> d.v < site.curtailmentPct, rng |-> d.rng]

TelemetryData(date, poa, temp, wind, power, energy, status) ==
    [tsUtc |-> date, poaIrrWm2 |-> poa, tempC |-> temp, windMps |-> wind,
     acPowerKw |-> power, acEnergyKwh |-> energy, status |-> status]

NoRecord ==
    TelemetryData([dow |-> 0, hour |-> 0, minute |-> 0],
                  Num(0), Num(0), Num(0), Num(0), Num(0), "")

\* Curtailment tested before the outage windows.
generateTelemetryCurtailFirst(site, rng, date, intervalMinutes) ==
    LET irr  == calculateIrradiance(rng, date)
        tmp  == calculateTemperature(irr.rng, date)
        wind == calculateWindSpeed(tmp.rng, date)
        cur  == checkCurtailment(site, wind.rng)
        out  == checkOutage(site, date)
        status == IF cur.v THEN "CURTAILED" ELSE IF out.v THEN "OUTAGE" ELSE "OK"
        acPowerKw ==
            IF status = "OK" /\ NumGeq(irr.v, Num(1))
            THEN calculateAcPower(site, calculateDcPower(site, irr.v, tmp.v))
            ELSE Num(0)
    IN  IF out.threw
        THEN [kind |-> "thrown", rec |-> NoRecord, rng |-> wind.rng]
        ELSE [kind |-> "returned",
              rec  |-> TelemetryData(date, irr.v, tmp.v, wind.v, acPowerKw,
                                     calculateEnergy(acPowerKw, intervalMinutes),
                                     status),
              rng  |-> cur.rng]

\* The curtailment draw taken whether or not an outage is active.
generateTelemetryAlwaysDraws(site, rng, date, intervalMinutes) ==
    LET irr  == calculateIrradiance(rng, date)
        tmp  == calculateTemperature(irr.rng, date)
        wind == calculateWindSpeed(tmp.rng, date)
        out  == checkOutage(site, date)
        cur  == checkCurtailment(site, wind.rng)
        status == IF out.v THEN "OUTAGE" ELSE IF cur.v THEN "CURTAILED" ELSE "OK"
        acPowerKw ==
            IF status = "OK" /\ NumGeq(irr.v, Num(1))
            THEN calculateAcPower(site, calculateDcPower(site, irr.v, tmp.v))
            ELSE Num(0)
    IN  IF out.threw
        THEN [kind |-> "thrown", rec |-> NoRecord, rng |-> wind.rng]
        ELSE [kind |-> "returned",
              rec  |-> TelemetryData(date, irr.v, tmp.v, wind.v, acPowerKw,
                                     calculateEnergy(acPowerKw, intervalMinutes),
                                     status),
              rng  |-> cur.rng]

\* Power computed whatever the status.
generateTelemetryAlwaysPowered(site, rng, date, intervalMinutes) ==
    LET irr  == calculateIrradiance(rng, date)
        tmp  == calculateTemperature(irr.rng, date)
        wind == calculateWindSpeed(tmp.rng, date)
        out  == checkOutage(site, date)
        cur  == IF out.v THEN [v |-> FALSE, rng |-> wind.rng]
                ELSE checkCurtailment(site, wind.rng)
        status == IF out.v THEN "OUTAGE" ELSE IF cur.v THEN "CURTAILED" ELSE "OK"
        acPowerKw ==
            IF NumGeq(irr.v, Num(1))
            THEN calculateAcPower(site, calculateDcPower(site, irr.v, tmp.v))
            ELSE Num(0)
    IN  IF out.threw
        THEN [kind |-> "thrown", rec |-> NoRecord, rng |-> wind.rng]
        ELSE [kind |-> "returned",
              rec  |-> TelemetryData(date, irr.v, tmp.v, wind.v, acPowerKw,
                                     calculateEnergy(acPowerKw, intervalMinutes),
                                     status),
              rng  |-> cur.rng]

\* generateTelemetry(date, intervalMinutes): the record returned (or the
\* throw) and the generator afterwards
generateTelemetry(site, rng, date, intervalMinutes) ==
    LET irr  == calculateIrradiance(rng, date)
        tmp  == calculateTemperature(irr.rng, date)
        wind == calculateWindSpeed(tmp.rng, date)
        out  == checkOutage(site, date)
        \* isCurtailed = !isOutage && this.checkCurtailment()
        cur  == IF out.v THEN [v |-> FALSE, rng |-> wind.rng]
                ELSE checkCurtailment(site, wind.rng)
        status == IF out.v THEN "OUTAGE" ELSE IF cur.v THEN "CURTAILED" ELSE "OK"
        acPowerKw ==
            IF status = "OK" /\ NumGeq(irr.v, Num(1))      \* poaIrrWm2 > 0
            THEN calculateAcPower(site, calculateDcPower(site, irr.v, tmp.v))
            ELSE Num(0)
    IN  IF out.threw
        THEN [kind |-> "thrown", rec |-> NoRecord, rng |-> wind.rng]
        ELSE [kind |-> "returned",
              rec  |-> TelemetryData(date, irr.v, tmp.v, wind.v, acPowerKw,
                                     calculateEnergy(acPowerKw, intervalMinutes),
                                     status),
              rng  |-> cur.rng]

-----------------------------------------------------------------------------
(* Telemetry specification: one PVSimulationModel, called repeatedly. *)

OutageWindow(start, end, days) == [start |-> start, end |-> end, days |-> days]

\* outageWindows values of the modelled site configurations
WindowConfigs ==
    { <<>>,
      \* "03:00"-"03:30" on "SUN" (the README's example)
      << OutageWindow(<<"0","3",":","0","0">>, <<"0","3",":","3","0">>,
                      <<"S","U","N">>) >>,
      \* "00:00"-"23:59" on "ALL"
      << OutageWindow(<<"0","0",":","0","0">>, <<"2","3",":","5","9">>,
                      <<"A","L","L">>) >>,
      \* "11:00"-"12:30" on "MON,TUE"
      << OutageWindow(<<"1","1",":","0","0">>, <<"1","2",":","3","0">>,
                      <<"M","O","N",",","T","U","E">>) >>,
      \* a start without minutes: "3"-"23:59" on "ALL"
      << OutageWindow(<<"3">>, <<"2","3",":","5","9">>, <<"A","L","L">>) >> }

\* A site configuration as siteConfigSchema parses it: capacityAcKW is set,
\* and the object has no capacityAcKw property.
SchemaSite(capacity, windows, curtailment) ==
    [capacityAcKW   |-> Num(capacity),
     capacityAcKw   |-> Undefined,
     modules        |-> 20,
     inverterEff    |-> 950,
     outageWindows  |-> [t |-> "array", items |-> windows],
     curtailmentPct |-> curtailment,
     baselineKgPerKwh |-> 386]

\* A row of the site table passed `as SiteConfig`: capacityAcKw is set and
\* outageWindows is the JSON text written by seedSites.
RowSite(capacity, curtailment) ==
    [capacityAcKW   |-> Undefined,
     capacityAcKw   |-> Num(capacity),
     modules        |-> 20,
     inverterEff    |-> 950,
     outageWindows  |-> [t |-> "string", items |-> <<"[", "]">>],
     curtailmentPct |-> curtailment,
     baselineKgPerKwh |-> 386]

\* AC capacities (W) and curtailment probabilities (/ WordModulus)
Capacities == {2000, 100000}

CurtailmentPcts == {0, 128}

Sites ==
    { SchemaSite(c, w, p) : c \in Capacities, w \in WindowConfigs,
                            p \in CurtailmentPcts }
    \cup { RowSite(c, 128) : c \in Capacities }

Seeds == {42, 41, 204}

Intervals == {5, 60}

DcPowers == {0, 1500, 5000}

NoOutcome == [kind |-> "none", rec |-> NoRecord]

NoAcCall == [kind |-> "none", dc |-> Num(0), result |-> Num(0)]

NoIrrCall == [kind |-> "none", date |-> [dow |-> 0, hour |-> 0, minute |-> 0],
              result |-> Num(0), call |-> 0]

TelemetryIdle ==
    /\ tSite = SchemaSite(2000, <<>>, 0)
    /\ tRng = newRng(42)
    /\ tOut = NoOutcome
    /\ tAc = NoAcCall
    /\ tCalls = 0
    /\ tIrr = NoIrrCall
    /\ tBefore = tRng

\* new PVSimulationModel(site, seed)
InitTelemetry ==
    /\ tSite \in Sites
    /\ \E seed \in Seeds : tRng = newRng(seed)
    /\ tOut = NoOutcome
    /\ tAc = NoAcCall
    /\ tCalls = 0
    /\ tIrr = NoIrrCall
    /\ tBefore = tRng

-----------------------------------------------------------------------------
(* Anchor requests and results: src/anchor/registry-adapter-client.ts *)

DefaultMaxRetries == 3

TxIds == {"tx-1", "tx-2"}

\* What POST /v1/anchor can do to the awaiting caller.
\*   ok        2xx with a body {adapterTxId, txHash, blockNumber}
\*   okNull    2xx whose body is null: reading response.data.adapterTxId
\*             throws a TypeError inside the try block
\*   httpMsg   non-2xx whose body carries an `error` field
\*   httpBare  non-2xx without one (axios error.message is used)
\*   transport axios error without a response (network, timeout)
\*   error     a non-axios Error thrown by the call
\*   other     a thrown value that is not an Error
ExtOutcomes ==
    { [k |-> "ok", tx |-> t] : t \in TxIds } \cup
    { [k |-> x, tx |-> ""] :
        x \in {"okNull", "httpMsg", "httpBare", "transport", "error", "other"} }

NotCalled == [k |-> "none", tx |-> ""]

AnchorFailure(msg) ==
    [adapterTxId |-> "", txHash |-> "", blockNumber |-> 0,
     success |-> FALSE, error |-> msg]

AnchorSuccess(tx) ==
    [adapterTxId |-> tx, txHash |-> tx, blockNumber |-> 1,
     success |-> TRUE, error |-> <<"undefined">>]

ResultReturned(v) == [kind |-> "returned", value |-> v]

ResultThrown(msg) == [kind |-> "thrown", value |-> AnchorFailure(msg)]

ResultNone == [kind |-> "none", value |-> AnchorFailure(<<>>)]

-----------------------------------------------------------------------------
(* The database tables and TelemetryGenerator: ingest/telemetry-generator.ts. *)
(* A table is the sequence of its rows in insertion order; a day is         *)
(* identified by its weekday.                                               *)

StoreSiteIds == {"PRJ001", "PRJ002"}

StoreDays == {1}

\* interval arguments (minutes) of the modelled runs: two or three records
\* a day
StoreIntervals == {720, 480}

MinutesPerDay == 1440

siteIdChars(siteId) ==
    IF siteId = "PRJ001" THEN encode(<<"P","R","J","0","0","1">>)
    ELSE encode(<<"P","R","J","0","0","2">>)

statusChars(status) ==
    CASE status = "OK" -> encode(<<"O","K">>)
      [] status = "OUTAGE" -> encode(<<"O","U","T","A","G","E">>)
      [] OTHER -> encode(<<"C","U","R","T","A","I","L","E","D">>)

RECURSIVE generateTelemetryRange(_, _, _, _, _)
\* TelemetryGenerator.generateTelemetry: the while loop from minute t of the
\* day up to the end of the day (23:59:59.999), one record per interval
generateTelemetryRange(site, rng, day, t, intervalMinutes) ==
    IF t >= MinutesPerDay THEN [kind |-> "returned", recs |-> <<>>]
    ELSE LET after(r) ==
                 IF r.kind = "thrown" THEN [kind |-> "thrown", recs |-> <<>>]
                 ELSE LET rest == generateTelemetryRange(site, r.rng, day,
                                      t + intervalMinutes, intervalMinutes)
                      IN  IF rest.kind = "thrown" THEN rest
                          ELSE [kind |-> "returned", recs |-> <<r.rec>> \o rest.recs]
         IN  after(generateTelemetry(site, rng,
                       [dow |-> day, hour |-> t \div 60, minute |-> t % 60],
                       intervalMinutes))

\* the record storeTelemetry builds from one TelemetryData
telemetryRow(siteId, data) ==
    [siteId |-> siteId, tsUtc |-> data.tsUtc, poaIrrWm2 |-> data.poaIrrWm2,
     tempC |-> data.tempC, windMps |-> data.windMps,
     acPowerKw |-> data.acPowerKw, acEnergyKwh |-> data.acEnergyKwh,
     status |-> data.status,
     rowHash |-> hashTelemetryRow(siteIdChars(siteId), toISOString(data.tsUtc),
                                  data.acEnergyKwh, data.acPowerKw,
                                  data.poaIrrWm2, data.tempC,
                                  statusChars(data.status))]

\* A plain insert in place of the upsert.
createTelemetry(table, record) == Append(table, record)

\* prisma.telemetry.upsert({ where: { siteId_tsUtc }, update, create })
upsertTelemetry(table, record) ==
    LET hit == { i \in 1..Len(table) :
                   table[i].siteId = record.siteId /\ table[i].tsUtc = record.tsUtc }
    IN  IF hit = {} THEN Append(table, record)
        ELSE [table EXCEPT ![CHOOSE i \in hit : \A j \in hit : i <= j] = record]

RECURSIVE storeTelemetry(_, _, _)
\* storeTelemetry(telemetryData): one upsert per record, in order
storeTelemetry(table, siteId, telemetryData) ==
    IF telemetryData = <<>> THEN table
    ELSE storeTelemetry(upsertTelemetry(table, telemetryRow(siteId, Head(telemetryData))),
                        siteId, Tail(telemetryData))

\* new TelemetryGenerator(site, seed).generateDayTelemetry(day, interval):
\* the outcome and the telemetry table afterwards
generateDayTelemetry(table, site, siteId, seed, day, intervalMinutes) ==
    LET stored(g) ==
            IF g.kind = "thrown" THEN [kind |-> "thrown", recs |-> <<>>, table |-> table]
            ELSE [kind |-> "returned", recs |-> g.recs,
                  table |-> storeTelemetry(table, siteId, g.recs)]
    IN  stored(generateTelemetryRange(site, newRng(seed), day, 0, intervalMinutes))

inDay(row, siteId, day) == row.siteId = siteId /\ row.tsUtc.dow = day

\* deleteTelemetryForDay(siteId, day)
deleteTelemetryForDay(table, siteId, day) ==
    SelectSeq(table, LAMBDA row : ~inDay(row, siteId, day))

tsLess(a, b) == a.tsUtc.hour * 60 + a.tsUtc.minute < b.tsUtc.hour * 60 + b.tsUtc.minute

RECURSIVE insertByTs(_, _)
insertByTs(row, rows) ==
    IF rows = <<>> THEN <<row>>
    ELSE IF tsLess(row, Head(rows)) THEN <<row>> \o rows
    ELSE <<Head(rows)>> \o insertByTs(row, Tail(rows))

RECURSIVE orderByTs(_)
orderByTs(rows) ==
    IF rows = <<>> THEN <<>> ELSE insertByTs(Head(rows), orderByTs(Tail(rows)))

\* prisma.telemetry.findMany({ where: { siteId, tsUtc: { gte, lte } },
\*                             orderBy: { tsUtc: 'asc' } })
findManyDay(table, siteId, day) ==
    orderByTs(SelectSeq(table, LAMBDA row : inDay(row, siteId, day)))

-----------------------------------------------------------------------------
(* AggregationService and DigestGenerator: aggregate/index.ts,              *)
(* aggregate/digest-generator.ts.                                           *)

\* x + y on numbers
NumAdd(x, y) ==
    IF NaNLike(x) \/ NaNLike(y) THEN NaN
    ELSE IF IsNum(x) /\ IsNum(y) THEN Num(x.v + y.v)
    ELSE IF IsNum(x) THEN y
    ELSE IF IsNum(y) THEN x
    ELSE IF x.t = y.t THEN x ELSE NaN

RECURSIVE sumOf(_)
\* values.reduce((sum, v) => sum + v, 0)
sumOf(values) ==
    IF values = <<>> THEN Num(0)
    ELSE NumAdd(sumOf(SubSeq(values, 1, Len(values) - 1)), values[Len(values)])

RECURSIVE maxOf(_)
\* Math.max(...values) of a non-empty list
maxOf(values) ==
    IF Len(values) = 1 THEN (IF NaNLike(values[1]) THEN NaN ELSE values[1])
    ELSE MathMax(values[1], maxOf(Tail(values)))

\* values.reduce(sum) / values.length, rounded to the unit of the values
meanOf(values) ==
    LET total == sumOf(values)
    IN  IF IsNum(total) THEN Num(RoundDiv(total.v, Len(values))) ELSE total

\* getHourUtc(new Date(record.tsUtc))
getHourUtc(tsUtc) == [dow |-> tsUtc.dow, hour |-> tsUtc.hour]

RECURSIVE hoursOf(_)
\* the keys of hourlyData, in insertion order
hoursOf(rows) ==
    IF rows = <<>> THEN <<>>
    ELSE LET before == hoursOf(SubSeq(rows, 1, Len(rows) - 1))
             hourUtc == getHourUtc(rows[Len(rows)].tsUtc)
         IN  IF \E i \in 1..Len(before) : before[i] = hourUtc THEN before
             ELSE Append(before, hourUtc)

\* the summary of one hour's records
hourSummary(siteId, hourUtc, rows) ==
    LET hourTelemetry == SelectSeq(rows, LAMBDA row : getHourUtc(row.tsUtc) = hourUtc)
        n == Len(hourTelemetry)
    IN  [hourUtc    |-> hourUtc,
         siteId     |-> siteId,
         energyKwh  |-> roundToDecimals(sumOf([i \in 1..n |-> hourTelemetry[i].acEnergyKwh]), 1),
         maxPowerKw |-> roundToDecimals(maxOf([i \in 1..n |-> hourTelemetry[i].acPowerKw]), 1),
         avgTempC   |-> meanOf([i \in 1..n |-> hourTelemetry[i].tempC]),
         avgIrrWm2  |-> meanOf([i \in 1..n |-> hourTelemetry[i].poaIrrWm2])]

\* A plain insert in place of the upsert.
createSummary(table, summary) == Append(table, summary)

\* prisma.hourlySummary.upsert({ where: { hourUtc }, update, create })
upsertSummary(table, summary) ==
    LET hit == { i \in 1..Len(table) : table[i].hourUtc = summary.hourUtc }
    IN  IF hit = {} THEN Append(table, summary)
        ELSE [table EXCEPT ![CHOOSE i \in hit : \A j \in hit : i <= j] = summary]

RECURSIVE storeSummaries(_, _)
storeSummaries(table, summaries) ==
    IF summaries = <<>> THEN table
    ELSE storeSummaries(upsertSummary(table, Head(summaries)), Tail(summaries))

\* generateHourlySummaries(siteId, day): the summaries returned and the
\* hourlySummary table afterwards
generateHourlySummaries(telemetry, table, siteId, day) ==
    LET rows == findManyDay(telemetry, siteId, day)
        hours == hoursOf(rows)
        summaries == [i \in 1..Len(hours) |-> hourSummary(siteId, hours[i], rows)]
    IN  [summaries |-> summaries, table |-> storeSummaries(table, summaries)]

\* JSON.parse(JSON.stringify(x)) of a number: NaN and the infinities are
\* written as null
jsonNumber(x) == IF IsNum(x) THEN x ELSE Null

\* `0x${merkleRoot}`
hexPrefixed(root) == encode(<<"0", "x">>) \o root

\* s.replace(pattern, ''): the first occurrence removed
replaceFirst(str, pattern) ==
    LET at == { i \in 1..(Len(str) - Len(pattern) + 1) :
                  SubSeq(str, i, i + Len(pattern) - 1) = pattern }
    IN  IF at = {} THEN str
        ELSE LET i == CHOOSE i \in at : \A j \in at : i <= j
             IN  SubSeq(str, 1, i - 1) \o SubSeq(str, i + Len(pattern), Len(str))

NoDigest ==
    [siteId |-> "", dayUtc |-> 0, energyKwh |-> Null, avoidedTco2e |-> Null,
     rows |-> 0, merkleRoot |-> <<>>]

rowHashes(rows) == [i \in 1..Len(rows) |-> rows[i].rowHash]

\* The artifacts built without the test for an empty day.
generateDigestArtifactsUnchecked(telemetry, siteId, day, site) ==
    LET rows == findManyDay(telemetry, siteId, day)
        energyKwh == sumOf([i \in 1..Len(rows) |-> rows[i].acEnergyKwh])
        avoidedTco2e == IF IsNum(energyKwh)
                        THEN Num(RoundDiv(energyKwh.v * site.baselineKgPerKwh, 1000000))
                        ELSE energyKwh
    IN  [kind |-> "returned",
         json |-> [siteId |-> siteId, dayUtc |-> day,
                   energyKwh |-> jsonNumber(roundToDecimals(energyKwh, 1)),
                   avoidedTco2e |-> jsonNumber(avoidedTco2e),
                   rows |-> Len(rows),
                   merkleRoot |-> hexPrefixed(buildMerkleRoot(rowHashes(rows)).value)]]

\* generateDigestArtifacts(siteId, day, site, intervalMinutes): throws when
\* the day has no telemetry; otherwise the fields of the JSON digest
\* (energy in Wh, avoided emissions in kg = thousandths of a tonne)
generateDigestArtifacts(telemetry, siteId, day, site) ==
    LET rows == findManyDay(telemetry, siteId, day)
        energyKwh == sumOf([i \in 1..Len(rows) |-> rows[i].acEnergyKwh])
        avoidedTco2e == IF IsNum(energyKwh)
                        THEN Num(RoundDiv(energyKwh.v * site.baselineKgPerKwh, 1000000))
                        ELSE energyKwh
    IN  IF Len(rows) = 0 THEN [kind |-> "thrown", json |-> NoDigest]
        ELSE [kind |-> "returned",
              json |-> [siteId |-> siteId, dayUtc |-> day,
                        energyKwh |-> jsonNumber(roundToDecimals(energyKwh, 1)),
                        avoidedTco2e |-> jsonNumber(avoidedTco2e),
                        rows |-> Len(rows),
                        merkleRoot |-> hexPrefixed(buildMerkleRoot(rowHashes(rows)).value)]]

\* the dailyDigest row of a digest; "" is a null anchor field
digestRow(digest, anchorAdapterTxId, anchorTxHash) ==
    [siteId |-> digest.siteId, dayUtc |-> digest.dayUtc,
     energyKwh |-> digest.energyKwh, avoidedTco2e |-> digest.avoidedTco2e,
     rows |-> digest.rows, merkleRoot |-> digest.merkleRoot,
     anchorAdapterTxId |-> anchorAdapterTxId, anchorTxHash |-> anchorTxHash]

digestAt(table, siteId, dayUtc) ==
    { i \in 1..Len(table) : table[i].siteId = siteId /\ table[i].dayUtc = dayUtc }

\* prisma.dailyDigest.upsert({ where: { siteId_dayUtc }, update: digest,
\* create: digest }): the update writes the digest's own fields and leaves
\* the anchor fields, which the digest object does not have, as they are
upsertDigest(table, digest) ==
    LET hit == digestAt(table, digest.siteId, digest.dayUtc)
    IN  IF hit = {} THEN Append(table, digestRow(digest, "", ""))
        ELSE LET i == CHOOSE i \in hit : \A j \in hit : i <= j
             IN  [table EXCEPT ![i] = digestRow(digest, table[i].anchorAdapterTxId,
                                                table[i].anchorTxHash)]

\* generateAndStoreDigest(siteId, day, site, intervalMinutes): the digest
\* returned (or the throw) and the dailyDigest table afterwards
generateAndStoreDigest(telemetry, table, siteId, day, site) ==
    LET artifacts == generateDigestArtifacts(telemetry, siteId, day, site)
    IN  IF artifacts.kind = "thrown"
        THEN [kind |-> "thrown", digest |-> NoDigest, table |-> table]
        ELSE [kind |-> "returned", digest |-> artifacts.json,
              table |-> upsertDigest(table, artifacts.json)]

\* The verification that compares the number of rows only.
verifyRowCountOnly(telemetry, table, siteId, day) ==
    LET hit == digestAt(table, siteId, day)
        rows == findManyDay(telemetry, siteId, day)
    IN  IF hit = {} THEN FALSE
        ELSE Len(rows) = table[CHOOSE i \in hit : \A j \in hit : i <= j].rows

\* verifyDigestIntegrity(siteId, day)
verifyDigestIntegrity(telemetry, table, siteId, day) ==
    LET hit == digestAt(table, siteId, day)
        rows == findManyDay(telemetry, siteId, day)
    IN  IF hit = {} THEN FALSE
        ELSE LET storedDigest == table[CHOOSE i \in hit : \A j \in hit : i <= j]
             IN  IF Len(rows) # storedDigest.rows THEN FALSE
                 ELSE buildMerkleRoot(rowHashes(rows)).value
                        = replaceFirst(storedDigest.merkleRoot, encode(<<"0", "x">>))

\* updateDigestAnchor(siteId, dayUtc, anchorAdapterTxId, anchorTxHash)
updateDigestAnchor(table, siteId, dayUtc, anchorAdapterTxId, anchorTxHash) ==
    [i \in 1..Len(table) |->
        IF table[i].siteId = siteId /\ table[i].dayUtc = dayUtc
        THEN [table[i] EXCEPT !.anchorAdapterTxId = anchorAdapterTxId,
                              !.anchorTxHash = anchorTxHash]
        ELSE table[i]]

-----------------------------------------------------------------------------
(* The store at start-up *)

\* the latest operation: which, on what, what it returned, and whether it
\* repeats the operation before it (which returned)
LastOp(op, siteId, day, intervalMinutes, kind) ==
    [op |-> op, siteId |-> siteId, day |-> day, interval |-> intervalMinutes,
     kind |-> kind, ok |-> FALSE, summaries |-> <<>>,
     digest |-> NoDigest, anchor |-> AnchorFailure(<<>>),
     again |-> /\ sLast.op = op /\ sLast.siteId = siteId /\ sLast.day = day
               /\ sLast.interval = intervalMinutes /\ sLast.kind = "returned"]

NoLast ==
    [op |-> "none", siteId |-> "", day |-> 0, interval |-> 0,
     kind |-> "none", ok |-> FALSE, summaries |-> <<>>,
     digest |-> NoDigest, anchor |-> AnchorFailure(<<>>), again |-> FALSE]

NotDigested == [has |-> FALSE, hashes |-> <<>>]

\* configurations a site's generator is constructed with: parsed by
\* siteConfigSchema, or the row of the site table
StoreSiteConfigs == { SchemaSite(2000, <<>>, 0), RowSite(2000, 128) }

\* SIM_SEED: z.string().transform(Number).default('42')
SimSeed == 42

\* no row in any table, no operation performed
StoreEmpty ==
    /\ sSeed = SimSeed
    /\ sTelemetry = <<>>
    /\ sSummaries = <<>>
    /\ sDigests = <<>>
    /\ sLast = NoLast
    /\ sOps = 0
    /\ sDigested = [id \in StoreSiteIds |-> [day \in StoreDays |-> NotDigested]]
    /\ sSubmitted = [id \in StoreSiteIds |-> [day \in StoreDays |-> <<>>]]

StoreIdle ==
    /\ sSites = [id \in StoreSiteIds |-> SchemaSite(2000, <<>>, 0)]
    /\ sAnchorEnabled = TRUE
    /\ StoreEmpty

\* empty tables; the sites are those of the site table
InitStore ==
    /\ sSites \in [StoreSiteIds -> StoreSiteConfigs]
    /\ sSites["PRJ001"] = SchemaSite(2000, <<>>, 0)
    /\ sAnchorEnabled = TRUE
    /\ StoreEmpty

\* the same, with ANCHOR_ENABLED read from the environment
InitStoreAnchor ==
    /\ sSites = [id \in StoreSiteIds |-> SchemaSite(2000, <<>>, 0)]
    /\ sAnchorEnabled \in BOOLEAN
    /\ StoreEmpty

\* no batch script started
BatchIdle ==
    /\ bScript = "none"
    /\ bList = <<>>
    /\ bForce = FALSE
    /\ bPos = 1
    /\ bDay = 1
    /\ bVisited = <<>>
    /\ bAborted = FALSE
    /\ bSeeds = <<>>

-----------------------------------------------------------------------------
(* Two telemetry records given to storeTelemetry, which hashes each with   *)
(* hashTelemetryRow.  Energy in Wh, power in W, irradiance and temperature *)
(* in tenths, each with one further digit.                                 *)

HashEnergies == {Fine(FALSE, 1499, 6), Fine(FALSE, 1500, 1), Fine(FALSE, 1501, 0)}

HashPowers == {Fine(FALSE, 2000, 0), Fine(FALSE, 2000, 3), Fine(FALSE, 1999, 0)}

HashIrradiances == {Fine(FALSE, 1000, 0), Fine(FALSE, 1000, 4), Fine(FALSE, 1001, 0)}

HashTemperatures ==
    {Fine(TRUE, 0, 4), Fine(FALSE, 0, 0), Fine(FALSE, 0, 4), Fine(FALSE, 250, 0)}

HashWinds == {Num(30), Num(31)}

HashTimestamps == {[dow |-> 0, hour |-> 12, minute |-> 0],
                   [dow |-> 0, hour |-> 12, minute |-> 30]}

\* a site id with one TelemetryData
HashRecords ==
    { [siteId |-> id, data |-> TelemetryData(ts, poa, temp, wind, power, energy, status)] :
        id \in StoreSiteIds, ts \in HashTimestamps, poa \in HashIrradiances,
        temp \in HashTemperatures, wind \in HashWinds, power \in HashPowers,
        energy \in HashEnergies, status \in {"OK", "OUTAGE"} }

\* the first record of a pair: the second one ranges over HashRecords
HashFirstRecords ==
    { r \in HashRecords :
        /\ r.siteId = "PRJ001" /\ r.data.tsUtc.minute = 0 /\ r.data.status = "OK"
        /\ r.data.windMps = Num(30) /\ r.data.acPowerKw = Fine(FALSE, 2000, 0)
        /\ r.data.poaIrrWm2 = Fine(FALSE, 1000, 0) }

HashIdle ==
    /\ hRows = <<>>
    /\ hHashes = <<>>

\* an interval argument: the characters given, or none
Arg(s) == [given |-> TRUE, s |-> s]

NoArg == [given |-> FALSE, s |-> <<>>]

\* generateTelemetry not called
LoopIdle ==
    /\ lPc = "idle"
    /\ lCaller = [name |-> "none", arg |-> NoArg, env |-> 0]
    /\ lStepMs = 0
    /\ lEndMs = 0
    /\ lCurrentMs = 0
    /\ lRecords = <<>>

\* the generate requests being served
Requests == {1, 2}

\* no generate request received
ReqIdle ==
    /\ qPc = [p \in Requests |-> "idle"]
    /\ qInterval = [p \in Requests |-> 0]
    /\ qPending = [p \in Requests |-> <<>>]
    /\ qDigest = [p \in Requests |-> NoDigest]

InitHash ==
    /\ hRows \in { <<a, b>> : a \in HashFirstRecords, b \in HashRecords }
    /\ hHashes = <<>>

-----------------------------------------------------------------------------
(* Two instances constructed with the same seed (and site) and put through *)
(* the same sequence of method calls.                                      *)

NoDate == [dow |-> 0, hour |-> 0, minute |-> 0]

Call(m, a, b) == [m |-> m, a |-> a, b |-> b, date |-> NoDate]

ChoiceArray == <<10, 20, 30>>

\* calls made on a DeterministicRNG: next(), range(0, 5), int(1, 10),
\* boolean(0.5), choice([10, 20, 30]), normal(0, 2)
RngCalls ==
    { Call("next", 0, 0), Call("range", 0, 5), Call("int", 1, 10),
      Call("boolean", 128, 0), Call("choice", 0, 0), Call("normal", 0, 2) }

\* calls made on a PVSimulationModel: generateTelemetry(date, 5)
ModelCalls ==
    { [m |-> "generateTelemetry", a |-> 5, b |-> 0, date |-> d] :
        d \in { t \in Timestamps : t.minute = 0 } }

TwinSites ==
    { SchemaSite(2000, <<>>, 128),
      SchemaSite(100000,
                 << OutageWindow(<<"0","3",":","0","0">>, <<"0","3",":","3","0">>,
                                 <<"S","U","N">>) >>, 0) }

\* what a call returned: a number (a boolean as 1 or 0), or the outcome of
\* generateTelemetry
TwinValue(v) == [kind |-> "value", v |-> v, rec |-> NoRecord]

\* A generator seeded from the seed and from which instance it is.
constructRngPerInstance(instance, seed) == newRng(seed + instance)

\* the instance-th construction `new DeterministicRNG(seed)`
constructRng(instance, seed) == newRng(seed)

\* one method call on an instance: what it returns and the generator after
applyCall(site, rng, call) ==
    CASE call.m = "next" ->
            LET d == rngNext(rng) IN [out |-> TwinValue(Num(d.v)), rng |-> d.rng]
      [] call.m = "range" ->
            LET d == rngRange(rng, call.a, call.b)
            IN  [out |-> TwinValue(Num(d.v)), rng |-> d.rng]
      [] call.m = "int" ->
            LET d == rngInt(rng, call.a, call.b)
            IN  [out |-> TwinValue(Num(d.v)), rng |-> d.rng]
      [] call.m = "boolean" ->
            LET d == rngBoolean(rng, call.a)
            IN  [out |-> TwinValue(Num(IF d.v THEN 1 ELSE 0)), rng |-> d.rng]
      [] call.m = "choice" ->
            LET d == rngChoice(rng, ChoiceArray)
            IN  [out |-> TwinValue(Num(d.v)), rng |-> d.rng]
      [] call.m = "normal" ->
            LET d == rngNormal(rng, call.a, call.b)
            IN  [out |-> TwinValue(d.v), rng |-> d.rng]
      [] OTHER ->
            LET r == generateTelemetry(site, rng, call.date, call.a)
            IN  [out |-> [kind |-> r.kind, v |-> Num(0), rec |-> r.rec],
                 rng |-> r.rng]

TwinIdle ==
    /\ wKind = "rng"
    /\ wSeed = 42
    /\ wSite = SchemaSite(2000, <<>>, 0)
    /\ wRng = [i \in 1..2 |-> newRng(42)]
    /\ wScript = <<>>
    /\ wOut = [i \in 1..2 |-> <<>>]

\* two generators (or two models) constructed independently, same arguments
InitTwin ==
    /\ wKind \in {"rng", "model"}
    /\ wSeed \in Seeds
    /\ wSite \in (IF wKind = "model" THEN TwinSites ELSE {SchemaSite(2000, <<>>, 0)})
    /\ wRng = [i \in 1..2 |-> constructRng(i, wSeed)]
    /\ wScript = <<>>
    /\ wOut = [i \in 1..2 |-> <<>>]

MerkleIdle ==
    /\ mHashes = <<>>
    /\ mFirst = NoCall
    /\ mLast = NoCall
    /\ mLastInput = <<>>
    /\ mFirstInput = <<>>
    /\ mImpl = "util"

-----------------------------------------------------------------------------
(* Anchor coordinator: src/anchor/registry-adapter-client.ts *)

\* anchorDigest whose catch block rethrows what is not an axios error.
anchorDigestRethrow(enabled, ext) ==
    IF ~enabled THEN ResultReturned(AnchorFailure(<<"Anchoring is disabled">>))
    ELSE IF ext.k = "ok" THEN ResultReturned(AnchorSuccess(ext.tx))
    ELSE IF ext.k = "httpMsg" THEN
        ResultReturned(AnchorFailure(<<"response.data.error">>))
    ELSE IF ext.k \in {"httpBare", "transport"} THEN
        ResultReturned(AnchorFailure(<<"axios error.message">>))
    ELSE ResultThrown(<<"error.message">>)

\* async anchorDigest(siteId, dayUtc, merkleRoot, uri): the outcome for one
\* behaviour of the external call (which is not made when disabled).
anchorDigest(enabled, ext) ==
    IF ~enabled THEN ResultReturned(AnchorFailure(<<"Anchoring is disabled">>))
    ELSE IF ext.k = "ok" THEN ResultReturned(AnchorSuccess(ext.tx))
    ELSE IF ext.k = "httpMsg" THEN
        ResultReturned(AnchorFailure(<<"response.data.error">>))
    ELSE IF ext.k \in {"httpBare", "transport"} THEN
        ResultReturned(AnchorFailure(<<"axios error.message">>))
    ELSE IF ext.k \in {"okNull", "error"} THEN
        ResultReturned(AnchorFailure(<<"error.message">>))
    ELSE ResultReturned(AnchorFailure(<<"Unknown error">>))

\* Backoff that starts at one second.
backoffDelayFromOne(attempt) == (2 ^ (attempt - 1)) * 1000

\* const delay = Math.pow(2, attempt) * 1000
backoffDelay(attempt) == (2 ^ attempt) * 1000

\* A failure message without the attempt count.
failedWithoutCount(maxRetries, lastError) == <<"Failed: ">> \o lastError

\* `Failed after ${maxRetries} attempts: ${lastError}`
failedAfter(maxRetries, lastError) ==
    <<"Failed after ", ToString(maxRetries), " attempts: ">> \o lastError

InitAnchorIdle ==
    /\ aEnabled = TRUE
    /\ aPc = "idle"
    /\ aMaxRetries = 0
    /\ aAttempt = 0
    /\ aLastError = <<"undefined">>
    /\ aResults = <<>>
    /\ aSleeps = <<>>
    /\ aResult = ResultNone
    /\ aPosts = 0
    /\ aCancel = FALSE
    /\ aDirect = ResultNone

\* new RegistryAdapterClient(): enabled is read from the configuration.
InitAnchor ==
    /\ aEnabled \in BOOLEAN
    /\ aPc = "idle"
    /\ aMaxRetries = 0
    /\ aAttempt = 0
    /\ aLastError = <<"undefined">>
    /\ aResults = <<>>
    /\ aSleeps = <<>>
    /\ aResult = ResultNone
    /\ aPosts = 0
    /\ aCancel = FALSE
    /\ aDirect = ResultNone

Externals == IF aEnabled THEN ExtOutcomes ELSE {NotCalled}

\* A caller awaits anchorDigest directly.
AnchorDirect ==
    /\ aPc = "idle"
    /\ aDirect.kind = "none"
    /\ \E ext \in Externals :
        /\ aDirect' = anchorDigest(aEnabled, ext)
        /\ aPosts' = aPosts + (IF aEnabled THEN 1 ELSE 0)
    /\ UNCHANGED <<aEnabled, aPc, aMaxRetries, aAttempt, aLastError, aResults,
                   aSleeps, aResult, aCancel>>
    /\ UNCHANGED notAnchorVars

\* anchorDigestWithRetry(siteId, dayUtc, merkleRoot, uri, maxRetries)
AnchorStart ==
    /\ aPc = "idle"
    /\ \E mr \in 0..MaxRetriesArg :
        aMaxRetries' = mr
    /\ aAttempt' = 1
    /\ aLastError' = <<"undefined">>
    /\ aPc' = "attempt"
    /\ UNCHANGED <<aEnabled, aResults, aSleeps, aResult, aPosts, aCancel, aDirect>>
    /\ UNCHANGED notAnchorVars

\* anchorDigestWithRetry(siteId, dayUtc, merkleRoot): maxRetries defaults to 3
AnchorStartDefault ==
    /\ aPc = "idle"
    /\ aMaxRetries' = DefaultMaxRetries
    /\ aAttempt' = 1
    /\ aLastError' = <<"undefined">>
    /\ aPc' = "attempt"
    /\ UNCHANGED <<aEnabled, aResults, aSleeps, aResult, aPosts, aCancel, aDirect>>
    /\ UNCHANGED notAnchorVars

\* The loop body without `if (result.success) return result`.
afterAttemptNoReturn(r, attempt, maxRetries) ==
    IF attempt < maxRetries THEN "sleep" ELSE "next"

\* The loop body returning a "disabled" result at once instead of retrying.
afterAttemptStopWhenDisabled(r, attempt, maxRetries) ==
    IF r.kind = "returned"
       /\ (r.value.success \/ r.value.error = <<"Anchoring is disabled">>)
    THEN "return"
    ELSE IF attempt < maxRetries THEN "sleep"
    ELSE "next"

\* What the loop body does with the outcome r of its anchorDigest call:
\* return it, sleep before the next attempt, or go on to the loop test.
afterAttempt(r, attempt, maxRetries) ==
    IF r.kind = "returned" /\ r.value.success THEN "return"
    ELSE IF attempt < maxRetries THEN "sleep"
    ELSE "next"

\* One iteration of the for loop up to its first suspension or its return:
\* await anchorDigest, then return the success, or note the error and start
\* the backoff sleep, or (last attempt) fall through to the loop test.
AnchorAttempt ==
    /\ aPc = "attempt"
    /\ aAttempt <= aMaxRetries
    /\ \E ext \in Externals :
        LET r == anchorDigest(aEnabled, ext)
            step == afterAttempt(r, aAttempt, aMaxRetries)
        IN  /\ aResults' = Append(aResults, r)
            /\ aPosts' = aPosts + (IF aEnabled THEN 1 ELSE 0)
            /\ aResult' = IF step = "return" THEN r ELSE aResult
            /\ aLastError' = IF step = "return" THEN aLastError ELSE r.value.error
            /\ aSleeps' = IF step = "sleep"
                          THEN Append(aSleeps, backoffDelay(aAttempt))
                          ELSE aSleeps
            /\ aAttempt' = IF step = "next" THEN aAttempt + 1 ELSE aAttempt
            /\ aPc' = CASE step = "return" -> "done"
                         [] step = "sleep" -> "sleep"
                         [] OTHER -> "attempt"
    /\ UNCHANGED <<aEnabled, aMaxRetries, aCancel, aDirect>>
    /\ UNCHANGED notAnchorVars

\* The setTimeout of sleep(delay) fires: attempt++ and back to the loop test.
AnchorWake ==
    /\ aPc = "sleep"
    /\ aAttempt' = aAttempt + 1
    /\ aPc' = "attempt"
    /\ UNCHANGED <<aEnabled, aMaxRetries, aLastError, aResults, aSleeps,
                   aResult, aPosts, aCancel, aDirect>>
    /\ UNCHANGED notAnchorVars

\* The loop test fails: return the failure result.
AnchorGiveUp ==
    /\ aPc = "attempt"
    /\ aAttempt > aMaxRetries
    /\ aResult' = ResultReturned(AnchorFailure(failedAfter(aMaxRetries, aLastError)))
    /\ aPc' = "done"
    /\ UNCHANGED <<aEnabled, aMaxRetries, aAttempt, aLastError, aResults,
                   aSleeps, aPosts, aCancel, aDirect>>
    /\ UNCHANGED notAnchorVars

\* The caller signals cancellation while the request is in progress.  No
\* parameter of anchorDigestWithRetry or sleep receives the signal.
AnchorCancel ==
    /\ aPc \in {"attempt", "sleep"}
    /\ ~aCancel
    /\ aCancel' = TRUE
    /\ UNCHANGED <<aEnabled, aPc, aMaxRetries, aAttempt, aLastError, aResults,
                   aSleeps, aResult, aPosts, aDirect>>
    /\ UNCHANGED notAnchorVars

NextAnchor ==
    \/ AnchorDirect
    \/ AnchorStart
    \/ AnchorStartDefault
    \/ AnchorAttempt
    \/ AnchorWake
    \/ AnchorGiveUp
    \/ AnchorCancel

InitAnchorRun ==
    InitAnchor /\ MerkleIdle /\ TelemetryIdle /\ TwinIdle /\ StoreIdle /\ BatchIdle
    /\ HashIdle
    /\ ReqIdle
    /\ LoopIdle

SpecAnchor == InitAnchorRun /\ [][NextAnchor]_vars

\* The event loop runs every ready continuation: the HTTP call settles
\* (axios timeout 30000), the sleep timer fires, the loop test is evaluated.
SpecAnchorFair ==
    /\ InitAnchorRun
    /\ [][NextAnchor]_vars
    /\ WF_vars(AnchorAttempt)
    /\ WF_vars(AnchorWake)
    /\ WF_vars(AnchorGiveUp)

-----------------------------------------------------------------------------
(* Merkle specification: an input list, reordered at will, and built. *)

HashLists == UNION { [1..n -> LeafSet] : n \in 0..MaxLeaves }

InitMerkle ==
    /\ mHashes \in HashLists
    /\ mFirst = NoCall
    /\ mLast = NoCall
    /\ mLastInput = <<>>
    /\ mFirstInput = <<>>
    /\ mImpl \in {"util", "agg"}

\* The rows come back from storage in another order: positions i, j swap.
MerkleReorder ==
    \E i, j \in 1..Len(mHashes) :
        /\ i < j
        /\ mHashes' = [mHashes EXCEPT ![i] = mHashes[j], ![j] = mHashes[i]]
        /\ UNCHANGED <<mFirst, mLast, mLastInput, mFirstInput, mImpl>>
        /\ UNCHANGED notMerkleVars

\* root = buildMerkleRoot(mHashes)
MerkleBuild ==
    LET r == MerkleImpl(mImpl, mHashes)
    IN  /\ mLast' = r
        /\ mLastInput' = mHashes
        /\ mFirst' = IF mFirst.kind = "none" THEN r ELSE mFirst
        /\ mFirstInput' = IF mFirst.kind = "none" THEN mHashes ELSE mFirstInput
        /\ UNCHANGED <<mHashes, mImpl>>
        /\ UNCHANGED notMerkleVars

NextMerkle == MerkleReorder \/ MerkleBuild

InitMerkleRun ==
    InitMerkle /\ InitAnchorIdle /\ TelemetryIdle /\ TwinIdle /\ StoreIdle /\ BatchIdle
    /\ HashIdle
    /\ ReqIdle
    /\ LoopIdle

SpecMerkle == InitMerkleRun /\ [][NextMerkle]_vars

-----------------------------------------------------------------------------
(* Telemetry actions *)

\* model.generateTelemetry(date, intervalMinutes)
TelemetryGenerate ==
    /\ tCalls < MaxGenerate
    /\ \E date \in Timestamps, intervalMinutes \in Intervals :
        \E r \in {generateTelemetry(tSite, tRng, date, intervalMinutes)} :
            /\ tOut' = [kind |-> r.kind, rec |-> r.rec]
            /\ tRng' = r.rng
    /\ tCalls' = tCalls + 1
    /\ tBefore' = tRng
    /\ UNCHANGED <<tSite, tAc, tIrr>>
    /\ UNCHANGED notTelemetryVars

\* model.calculateAcPower(dcPowerKw), called on its own
TelemetryAcPower ==
    /\ tAc.kind = "none"
    /\ \E dc \in DcPowers :
        tAc' = [kind |-> "returned", dc |-> Num(dc),
                result |-> calculateAcPower(tSite, Num(dc))]
    /\ UNCHANGED <<tSite, tRng, tOut, tCalls, tIrr, tBefore>>
    /\ UNCHANGED notTelemetryVars

\* model.calculateIrradiance(date), called on its own
TelemetryIrradiance ==
    /\ tCalls < MaxGenerate
    /\ \E date \in { t \in Timestamps : t.minute = 0 } :
        \E r \in {calculateIrradiance(tRng, date)} :
            /\ tIrr' = [kind |-> "returned", date |-> date, result |-> r.v,
                        call |-> tCalls + 1]
            /\ tRng' = r.rng
    /\ tCalls' = tCalls + 1
    /\ tBefore' = tRng
    /\ UNCHANGED <<tSite, tOut, tAc>>
    /\ UNCHANGED notTelemetryVars

NextTelemetry == TelemetryGenerate \/ TelemetryAcPower \/ TelemetryIrradiance

InitTelemetryRun ==
    InitTelemetry /\ MerkleIdle /\ InitAnchorIdle /\ TwinIdle /\ StoreIdle /\ BatchIdle
    /\ HashIdle
    /\ ReqIdle
    /\ LoopIdle

SpecTelemetry == InitTelemetryRun /\ [][NextTelemetry]_vars

-----------------------------------------------------------------------------
(* Twin specification *)

\* Instance i makes its next call: the call the other instance made at that
\* position, or (when i is ahead) a call chosen now.
TwinCall ==
    \E i \in 1..2 :
        /\ Len(wOut[i]) < MaxTwinCalls
        /\ LET k == Len(wOut[i]) + 1
               calls == IF k <= Len(wScript) THEN {wScript[k]}
                        ELSE IF wKind = "rng" THEN RngCalls ELSE ModelCalls
           IN  \E call \in calls :
                 \E r \in {applyCall(wSite, wRng[i], call)} :
                   /\ wScript' = IF k <= Len(wScript) THEN wScript
                                  ELSE Append(wScript, call)
                   /\ wRng' = [wRng EXCEPT ![i] = r.rng]
                   /\ wOut' = [wOut EXCEPT ![i] = Append(@, r.out)]
        /\ UNCHANGED <<wKind, wSeed, wSite>>
        /\ UNCHANGED notTwinVars

NextTwin == TwinCall

InitTwinRun ==
    InitTwin /\ MerkleIdle /\ InitAnchorIdle /\ TelemetryIdle /\ StoreIdle /\ BatchIdle
    /\ HashIdle
    /\ ReqIdle
    /\ LoopIdle

SpecTwin == InitTwinRun /\ [][NextTwin]_vars

-----------------------------------------------------------------------------
(* Store specification: the operations of the API server on the tables,    *)
(* and edits of the telemetry table made behind the program's back.        *)

RECURSIVE anchorDigestWithRetry(_, _, _, _, _)
\* anchorDigestWithRetry(siteId, dayUtc, merkleRoot, uri, maxRetries) run to
\* its return, exts[n] being what the external call does at attempt n
anchorDigestWithRetry(enabled, exts, attempt, maxRetries, lastError) ==
    IF attempt > maxRetries
    THEN ResultReturned(AnchorFailure(failedAfter(maxRetries, lastError)))
    ELSE LET r == anchorDigest(enabled, exts[attempt])
         IN  IF afterAttempt(r, attempt, maxRetries) = "return" THEN r
             ELSE anchorDigestWithRetry(enabled, exts, attempt + 1, maxRetries,
                                        r.value.error)

\* The anchor fields written whatever the result.
applyAnchorResultAlways(table, siteId, dayUtc, anchorResult) ==
    updateDigestAnchor(table, siteId, dayUtc, anchorResult.adapterTxId,
                       anchorResult.txHash)

\* if (anchorResult.success) await updateDigestAnchor(...)
applyAnchorResult(table, siteId, dayUtc, anchorResult) ==
    IF anchorResult.success
    THEN updateDigestAnchor(table, siteId, dayUtc, anchorResult.adapterTxId,
                            anchorResult.txHash)
    ELSE table

\* what the adapter does at each attempt of one request
RouteExternals ==
    IF sAnchorEnabled
    THEN [1..DefaultMaxRetries ->
            {[k |-> "ok", tx |-> "tx-1"], [k |-> "ok", tx |-> "tx-2"],
             [k |-> "transport", tx |-> ""]}]
    ELSE {[n \in 1..DefaultMaxRetries |-> NotCalled]}

\* row hashes an editor of the table writes (digests of other data)
TamperHashes == {sha256(<<1>>)}

\* a row inserted behind the program's back
tamperRow(siteId, day, rowHash) ==
    [siteId |-> siteId, tsUtc |-> [dow |-> day, hour |-> 12, minute |-> 30],
     poaIrrWm2 |-> Num(0), tempC |-> Num(200), windMps |-> Num(0),
     acPowerKw |-> Num(0), acEnergyKwh |-> Num(0), status |-> "OK",
     rowHash |-> rowHash]

\* new TelemetryGenerator(site, config.simSeed).generateDayTelemetry(day, interval)
StoreGenerate ==
    /\ sOps < MaxStoreOps
    /\ \E siteId \in StoreSiteIds, day \in StoreDays, intervalMinutes \in StoreIntervals :
        \E r \in {generateDayTelemetry(sTelemetry, sSites[siteId], siteId, sSeed,
                                        day, intervalMinutes)} :
            /\ sTelemetry' = r.table
            /\ sLast' = LastOp("generate", siteId, day, intervalMinutes, r.kind)
    /\ sOps' = sOps + 1
    /\ UNCHANGED <<sSites, sSeed, sAnchorEnabled, sSubmitted, sSummaries, sDigests,
                   sDigested>>
    /\ UNCHANGED notStoreVars

\* deleteTelemetryForDay(siteId, day)
StoreDelete ==
    /\ sOps < MaxStoreOps
    /\ \E siteId \in StoreSiteIds, day \in StoreDays :
        /\ sTelemetry' = deleteTelemetryForDay(sTelemetry, siteId, day)
        /\ sLast' = LastOp("delete", siteId, day, 0, "returned")
    /\ sOps' = sOps + 1
    /\ UNCHANGED <<sSites, sSeed, sAnchorEnabled, sSubmitted, sSummaries, sDigests,
                   sDigested>>
    /\ UNCHANGED notStoreVars

\* aggregationService.generateHourlySummaries(siteId, day)
StoreHourly ==
    /\ sOps < MaxStoreOps
    /\ \E siteId \in StoreSiteIds, day \in StoreDays :
        \E r \in {generateHourlySummaries(sTelemetry, sSummaries, siteId, day)} :
            /\ sSummaries' = r.table
            /\ sLast' = [LastOp("hourly", siteId, day, 0, "returned")
                            EXCEPT !.summaries = r.summaries]
    /\ sOps' = sOps + 1
    /\ UNCHANGED <<sSites, sSeed, sAnchorEnabled, sSubmitted, sTelemetry, sDigests,
                   sDigested>>
    /\ UNCHANGED notStoreVars

\* digestGenerator.generateAndStoreDigest(siteId, day, site)
StoreDigest ==
    /\ sOps < MaxStoreOps
    /\ \E siteId \in StoreSiteIds, day \in StoreDays :
        \E r \in {generateAndStoreDigest(sTelemetry, sDigests, siteId, day,
                                          sSites[siteId])} :
            /\ sDigests' = r.table
            /\ sLast' = [LastOp("digest", siteId, day, 0, r.kind)
                            EXCEPT !.digest = r.digest]
            /\ sDigested' =
                  IF r.kind = "returned"
                  THEN [sDigested EXCEPT ![siteId][day] =
                          [has |-> TRUE,
                           hashes |-> sortStrings(rowHashes(
                                         findManyDay(sTelemetry, siteId, day)))]]
                  ELSE sDigested
    /\ sOps' = sOps + 1
    /\ UNCHANGED <<sSites, sSeed, sAnchorEnabled, sSubmitted, sTelemetry, sSummaries>>
    /\ UNCHANGED notStoreVars

\* digestGenerator.verifyDigestIntegrity(siteId, day)
StoreVerify ==
    /\ sOps < MaxStoreOps
    /\ \E siteId \in StoreSiteIds, day \in StoreDays :
        sLast' = [LastOp("verify", siteId, day, 0, "returned")
                    EXCEPT !.ok = verifyDigestIntegrity(sTelemetry, sDigests,
                                                        siteId, day)]
    /\ sOps' = sOps + 1
    /\ UNCHANGED <<sSites, sSeed, sAnchorEnabled, sSubmitted, sTelemetry, sSummaries,
                   sDigests, sDigested>>
    /\ UNCHANGED notStoreVars

\* POST /sites/:id/anchor: 404 without a digest; otherwise anchor with
\* retries and, on success, write the anchor fields
StoreAnchor ==
    /\ sOps < MaxStoreOps
    /\ \E siteId \in StoreSiteIds, day \in StoreDays :
        IF digestAt(sDigests, siteId, day) = {}
        THEN /\ sLast' = LastOp("anchor", siteId, day, 0, "notfound")
             /\ sDigests' = sDigests
             /\ sSubmitted' = sSubmitted
        ELSE \E exts \in RouteExternals :
               \E r \in {anchorDigestWithRetry(sAnchorEnabled, exts, 1,
                             DefaultMaxRetries, <<"undefined">>)} :
                 /\ sDigests' = applyAnchorResult(sDigests, siteId, day, r.value)
                 /\ sLast' = [LastOp("anchor", siteId, day, 0, "returned")
                                 EXCEPT !.anchor = r.value]
                 /\ sSubmitted' =
                       IF r.value.success
                       THEN [sSubmitted EXCEPT ![siteId][day] =
                               sDigests[CHOOSE i \in digestAt(sDigests, siteId, day) :
                                          TRUE].merkleRoot]
                       ELSE sSubmitted
    /\ sOps' = sOps + 1
    /\ UNCHANGED <<sSites, sSeed, sAnchorEnabled, sTelemetry, sSummaries, sDigested>>
    /\ UNCHANGED notStoreVars

\* The telemetry table is edited from outside: a row is deleted, a row's
\* hash is overwritten, or a row is inserted at a free (site, timestamp).
StoreTamper ==
    /\ sOps < MaxStoreOps
    /\ \/ \E i \in 1..Len(sTelemetry) :
             /\ sTelemetry' = SubSeq(sTelemetry, 1, i - 1)
                                 \o SubSeq(sTelemetry, i + 1, Len(sTelemetry))
             /\ sLast' = LastOp("tamper", sTelemetry[i].siteId,
                                 sTelemetry[i].tsUtc.dow, 0, "returned")
       \/ \E i \in 1..Len(sTelemetry), h \in TamperHashes :
             /\ sTelemetry' = [sTelemetry EXCEPT ![i].rowHash = h]
             /\ sLast' = LastOp("tamper", sTelemetry[i].siteId,
                                 sTelemetry[i].tsUtc.dow, 0, "returned")
       \/ \E siteId \in StoreSiteIds, day \in StoreDays, h \in TamperHashes :
             LET row == tamperRow(siteId, day, h)
             IN  /\ \A i \in 1..Len(sTelemetry) :
                       ~(sTelemetry[i].siteId = siteId /\ sTelemetry[i].tsUtc = row.tsUtc)
                 /\ sTelemetry' = Append(sTelemetry, row)
                 /\ sLast' = LastOp("tamper", siteId, day, 0, "returned")
    /\ sOps' = sOps + 1
    /\ UNCHANGED <<sSites, sSeed, sAnchorEnabled, sSubmitted, sSummaries, sDigests,
                   sDigested>>
    /\ UNCHANGED notStoreVars

\* telemetry and digests
NextStore ==
    \/ StoreGenerate
    \/ StoreDigest
    \/ StoreVerify
    \/ StoreTamper

InitStoreRun ==
    InitStore /\ MerkleIdle /\ InitAnchorIdle /\ TelemetryIdle /\ TwinIdle /\ BatchIdle
    /\ HashIdle
    /\ ReqIdle
    /\ LoopIdle

SpecStore == InitStoreRun /\ [][NextStore]_vars

\* telemetry, digests and their anchoring
NextStoreAnchor ==
    \/ StoreGenerate
    \/ StoreDigest
    \/ StoreAnchor

InitStoreAnchorRun ==
    InitStoreAnchor /\ MerkleIdle /\ InitAnchorIdle /\ TelemetryIdle /\ TwinIdle
    /\ BatchIdle
    /\ HashIdle
    /\ ReqIdle
    /\ LoopIdle

SpecStoreAnchor == InitStoreAnchorRun /\ [][NextStoreAnchor]_vars

\* telemetry and hourly summaries
NextStoreHourly ==
    \/ StoreGenerate
    \/ StoreDelete
    \/ StoreHourly

SpecStoreHourly == InitStoreRun /\ [][NextStoreHourly]_vars

-----------------------------------------------------------------------------
(* Batch specification: the seed, backfill and anchor scripts looping over *)
(* a list of sites: scripts/seed.ts, scripts/backfill.ts, scripts/anchor.ts *)

Tables(telemetry, summaries, digests) ==
    [telemetry |-> telemetry, summaries |-> summaries, digests |-> digests]

\* how a loop body ended, with the tables it leaves
BodyEnd(outcome, tables) ==
    [outcome |-> outcome, thrown |-> outcome = "error", tables |-> tables]

\* the day the seed and anchor scripts work on ("yesterday")
BatchDay == 1

\* the days backfill loops over, --from to --to
BackfillDays == <<0, 1>>

\* the interval of the batch runs (minutes)
BatchInterval == 720

\* config.siteIds or --site: the second list names a site that is not in
\* the site table
BatchLists ==
    { <<"PRJ001", "PRJ002">>, <<"PRJ002", "PRJ404", "PRJ001">> }

\* an exception injected in one stage of a loop body (a database error)
SeedFaults == {"none", "generate", "aggregate", "digest", "update"}

BackfillFaults == {"none", "generate", "aggregate", "digest"}

AnchorFaults == {"none", "digest", "update"}

\* what the adapter does during one anchorDigestWithRetry call
BatchExternals ==
    IF sAnchorEnabled
    THEN { [n \in 1..DefaultMaxRetries |-> [k |-> "ok", tx |-> "tx-1"]],
           [n \in 1..DefaultMaxRetries |-> [k |-> "transport", tx |-> ""]] }
    ELSE { [n \in 1..DefaultMaxRetries |-> NotCalled] }

\* new TelemetryGenerator(site, config.simSeed): the seed its
\* PVSimulationModel hands to new DeterministicRNG(seed)
generatorSeed(siteId, simSeed) == simSeed

\* generateDayTelemetry, generateHourlySummaries, generateAndStoreDigest in
\* sequence, as both seed and backfill call them; the first throw ends it
processSiteDay(tables, site, siteId, seed, day, intervalMinutes, fault) ==
    LET afterGenerate(g) ==
            LET ended(h, dg) ==
                    IF fault = "generate" \/ g.kind = "thrown"
                    THEN BodyEnd("error", tables)
                    ELSE IF fault = "aggregate"
                    THEN BodyEnd("error", Tables(g.table, tables.summaries, tables.digests))
                    ELSE IF fault = "digest" \/ dg.kind = "thrown"
                    THEN BodyEnd("error", Tables(g.table, h.table, tables.digests))
                    ELSE BodyEnd("ok", Tables(g.table, h.table, dg.table))
            IN  ended(generateHourlySummaries(g.table, tables.summaries, siteId, day),
                      generateAndStoreDigest(g.table, tables.digests, siteId, day, site))
    IN  afterGenerate(generateDayTelemetry(tables.telemetry, site, siteId, seed, day,
                                           intervalMinutes))

\* anchorDigestWithRetry and, on success, updateDigestAnchor: a failure is
\* logged, a throw of the update is an error
anchorStored(tables, enabled, siteId, day, fault, exts) ==
    LET stored(r) ==
            IF ~r.success THEN BodyEnd("failed", tables)
            ELSE IF fault = "update" THEN BodyEnd("error", tables)
            ELSE BodyEnd("ok", Tables(tables.telemetry, tables.summaries,
                                      updateDigestAnchor(tables.digests, siteId, day,
                                                         r.adapterTxId, r.txHash)))
    IN  stored(anchorDigestWithRetry(enabled, exts, 1, DefaultMaxRetries,
                                     <<"undefined">>).value)

\* the try block of generateYesterdayData for one site
seedSite(tables, site, siteId, seed, enabled, fault, exts) ==
    LET anchored(p) ==
            IF p.thrown \/ ~enabled THEN p
            ELSE anchorStored(p.tables, enabled, siteId, BatchDay, fault, exts)
    IN  anchored(processSiteDay(tables, site, siteId, seed, BatchDay, BatchInterval,
                                fault))

\* the try block of backfillData for one day of one site
backfillDay(tables, site, siteId, seed, day, force, fault) ==
    LET hasData == findManyDay(tables.telemetry, siteId, day) # <<>>
    IN  IF hasData /\ ~force THEN BodyEnd("skipped", tables)
        ELSE processSiteDay(
               Tables(IF hasData
                      THEN deleteTelemetryForDay(tables.telemetry, siteId, day)
                      ELSE tables.telemetry,
                      tables.summaries, tables.digests),
               site, siteId, seed, day, BatchInterval, fault)

\* the try block of anchorDigests for one site
anchorSite(tables, enabled, siteId, force, fault, exts) ==
    LET hit == digestAt(tables.digests, siteId, BatchDay)
    IN  IF fault = "digest" THEN BodyEnd("error", tables)
        ELSE IF hit = {} THEN BodyEnd("skipped", tables)
        ELSE IF tables.digests[CHOOSE i \in hit : TRUE].anchorTxHash # "" /\ ~force
        THEN BodyEnd("skipped", tables)
        ELSE anchorStored(tables, enabled, siteId, BatchDay, fault, exts)

\* A catch block that rethrows.
afterSiteRethrow(thrown) == IF thrown THEN "abort" ELSE "next"

\* try { ... } catch (error) { logger.error(...) }: the loop goes on
afterSite(thrown) == "next"

RECURSIVE seedAll(_, _, _)
\* the tables after generateYesterdayData ran over the list without
\* anchoring
seedAll(tables, sites, list) ==
    IF list = <<>> THEN tables
    ELSE seedAll(seedSite(tables, sites[Head(list)], Head(list), SimSeed, FALSE,
                          "none", [n \in 1..DefaultMaxRetries |-> NotCalled]).tables,
                 sites, Tail(list))

EmptyTables == Tables(<<>>, <<>>, <<>>)

\* a script is started on a database that is empty or was seeded before
InitBatch ==
    /\ BatchIdle
    /\ sSites \in [StoreSiteIds -> StoreSiteConfigs]
    /\ sSites["PRJ001"] = SchemaSite(2000, <<>>, 0)
    /\ sAnchorEnabled \in BOOLEAN
    /\ sSeed = SimSeed
    /\ \E tables \in {EmptyTables,
                       seedAll(EmptyTables, sSites, <<"PRJ001", "PRJ002">>)} :
          /\ sTelemetry = tables.telemetry
          /\ sSummaries = tables.summaries
          /\ sDigests = tables.digests
    /\ sLast = NoLast
    /\ sOps = 0
    /\ sDigested = [id \in StoreSiteIds |-> [day \in StoreDays |-> NotDigested]]
    /\ sSubmitted = [id \in StoreSiteIds |-> [day \in StoreDays |-> <<>>]]

CurrentTables == Tables(sTelemetry, sSummaries, sDigests)

\* the script has left its for loop by reaching the end of the list
BatchDone == bScript # "none" /\ ~bAborted /\ bPos > Len(bList)

\* main() calls the script's loop function
BatchStart ==
    /\ bScript = "none"
    /\ \E script \in {"seed", "backfill", "anchor"}, list \in BatchLists :
          /\ bScript' = script
          /\ bList' = list
          /\ bForce' \in (IF script = "seed" THEN {FALSE} ELSE BOOLEAN)
    /\ UNCHANGED <<bPos, bDay, bVisited, bAborted, bSeeds>>
    /\ UNCHANGED <<storeVars, notBatchVars>>

\* what one loop iteration leaves: the tables, the record of the visit,
\* and the loop position (unchanged when the exception leaves the loop)
BatchEnd(siteId, day, end, lastDay) ==
    /\ sTelemetry' = end.tables.telemetry
    /\ sSummaries' = end.tables.summaries
    /\ sDigests' = end.tables.digests
    /\ bVisited' = Append(bVisited, [siteId |-> siteId, day |-> day,
                                      outcome |-> end.outcome])
    /\ IF afterSite(end.thrown) = "next"
       THEN /\ bAborted' = FALSE
            /\ bPos' = IF lastDay THEN bPos + 1 ELSE bPos
            /\ bDay' = IF lastDay THEN 1 ELSE bDay + 1
       ELSE /\ bAborted' = TRUE
            /\ UNCHANGED <<bPos, bDay>>
    /\ UNCHANGED <<bScript, bList, bForce>>
    /\ UNCHANGED <<sSites, sSeed, sAnchorEnabled, sSubmitted, sLast, sOps,
                   sDigested>>
    /\ UNCHANGED notBatchVars

\* `if (!site) { logger.warn(...); continue; }`
BatchSiteNotFound ==
    /\ bScript # "none" /\ ~bAborted /\ bPos <= Len(bList)
    /\ bList[bPos] \notin StoreSiteIds
    /\ bVisited' = Append(bVisited, [siteId |-> bList[bPos], day |-> 0,
                                      outcome |-> "notfound"])
    /\ bPos' = bPos + 1
    /\ UNCHANGED <<bScript, bList, bForce, bDay, bAborted, bSeeds>>
    /\ UNCHANGED <<storeVars, notBatchVars>>

\* one iteration of the for loop of generateYesterdayData
BatchSeedSite ==
    /\ bScript = "seed" /\ ~bAborted /\ bPos <= Len(bList)
    /\ bList[bPos] \in StoreSiteIds
    /\ bSeeds' = Append(bSeeds, [siteId |-> bList[bPos],
                                  seed |-> generatorSeed(bList[bPos], sSeed)])
    /\ \E fault \in SeedFaults, exts \in BatchExternals :
          BatchEnd(bList[bPos], BatchDay,
                   seedSite(CurrentTables, sSites[bList[bPos]], bList[bPos],
                            generatorSeed(bList[bPos], sSeed), sAnchorEnabled,
                            fault, exts),
                   TRUE)

\* one iteration of the while loop of backfillData
BatchBackfillDay ==
    /\ bScript = "backfill" /\ ~bAborted /\ bPos <= Len(bList)
    /\ bList[bPos] \in StoreSiteIds
    /\ bSeeds' = Append(bSeeds, [siteId |-> bList[bPos],
                                  seed |-> generatorSeed(bList[bPos], sSeed)])
    /\ \E fault \in BackfillFaults :
          BatchEnd(bList[bPos], BackfillDays[bDay],
                   backfillDay(CurrentTables, sSites[bList[bPos]], bList[bPos],
                               generatorSeed(bList[bPos], sSeed),
                               BackfillDays[bDay], bForce, fault),
                   bDay = Len(BackfillDays))

\* one iteration of the for loop of anchorDigests
BatchAnchorSite ==
    /\ bScript = "anchor" /\ ~bAborted /\ bPos <= Len(bList)
    /\ bList[bPos] \in StoreSiteIds
    /\ bSeeds' = bSeeds
    /\ \E fault \in AnchorFaults, exts \in BatchExternals :
          BatchEnd(bList[bPos], BatchDay,
                   anchorSite(CurrentTables, sAnchorEnabled, bList[bPos], bForce,
                              fault, exts),
                   TRUE)

NextBatch ==
    \/ BatchStart
    \/ BatchSiteNotFound
    \/ BatchSeedSite
    \/ BatchBackfillDay
    \/ BatchAnchorSite

InitBatchRun == InitBatch /\ MerkleIdle /\ InitAnchorIdle /\ TelemetryIdle /\ TwinIdle
    /\ HashIdle
    /\ ReqIdle
    /\ LoopIdle

SpecBatch == InitBatchRun /\ [][NextBatch]_vars

-----------------------------------------------------------------------------
(* Route specification: POST /sites/:id/generate and POST /sites/:id/anchor *)
(* requests served one after the other: src/api/server.ts                  *)

\* the try block of POST /sites/:id/generate: deleteTelemetryForDay, then
\* generateDayTelemetry, generateHourlySummaries, generateAndStoreDigest
routeGenerate(tables, site, siteId, seed, day, intervalMinutes) ==
    processSiteDay(Tables(deleteTelemetryForDay(tables.telemetry, siteId, day),
                          tables.summaries, tables.digests),
                   site, siteId, seed, day, intervalMinutes, "none")

\* POST /sites/:id/generate?day=&interval=
StoreRouteGenerate ==
    /\ sOps < MaxStoreOps
    /\ \E siteId \in StoreSiteIds, day \in StoreDays, intervalMinutes \in StoreIntervals :
        \E end \in {routeGenerate(CurrentTables, sSites[siteId], siteId, sSeed, day,
                                   intervalMinutes)} :
            /\ sTelemetry' = end.tables.telemetry
            /\ sSummaries' = end.tables.summaries
            /\ sDigests' = end.tables.digests
            /\ sLast' = LastOp("route", siteId, day, intervalMinutes,
                               IF end.thrown THEN "thrown" ELSE "returned")
            /\ sDigested' =
                  IF end.thrown THEN sDigested
                  ELSE [sDigested EXCEPT ![siteId][day] =
                          [has |-> TRUE,
                           hashes |-> sortStrings(rowHashes(
                                         findManyDay(end.tables.telemetry, siteId, day)))]]
    /\ sOps' = sOps + 1
    /\ UNCHANGED <<sSites, sSeed, sAnchorEnabled, sSubmitted>>
    /\ UNCHANGED notStoreVars

NextStoreRoute ==
    \/ StoreRouteGenerate
    \/ StoreAnchor

SpecStoreRoute == InitStoreAnchorRun /\ [][NextStoreRoute]_vars

-----------------------------------------------------------------------------
(* Concurrent generate requests: two POST /sites/:id/generate requests for *)
(* one site-day are served by one event loop; a handler runs until its     *)
(* next awaited database call, and the other handler may run in between.   *)

\* the site-day both requests name
ReqSiteId == "PRJ001"

ReqDay == CHOOSE day \in StoreDays : TRUE

\* await deleteTelemetryForDay; generateDayTelemetry then builds the day's
\* records without touching the database and storeTelemetry starts on them
ReqDelete(p) ==
    /\ qPc[p] = "delete"
    /\ sTelemetry' = deleteTelemetryForDay(sTelemetry, ReqSiteId, ReqDay)
    /\ \E g \in {generateTelemetryRange(sSites[ReqSiteId], newRng(sSeed), ReqDay, 0,
                                         qInterval[p])} :
        IF g.kind = "thrown"
        THEN /\ qPc' = [qPc EXCEPT ![p] = "failed"]
             /\ UNCHANGED qPending
        ELSE /\ qPc' = [qPc EXCEPT ![p] = "store"]
             /\ qPending' = [qPending EXCEPT ![p] = g.recs]
    /\ UNCHANGED <<qInterval, qDigest>>
    /\ UNCHANGED <<sSites, sSeed, sAnchorEnabled, sSummaries, sDigests, sLast, sOps,
                   sDigested, sSubmitted>>
    /\ UNCHANGED notReqVars

\* one pass of storeTelemetry's loop: await telemetry.upsert of one record
ReqUpsert(p) ==
    /\ qPc[p] = "store"
    /\ qPending[p] # <<>>
    /\ sTelemetry' = upsertTelemetry(sTelemetry, telemetryRow(ReqSiteId, Head(qPending[p])))
    /\ qPending' = [qPending EXCEPT ![p] = Tail(qPending[p])]
    /\ UNCHANGED <<qPc, qInterval, qDigest>>
    /\ UNCHANGED <<sSites, sSeed, sAnchorEnabled, sSummaries, sDigests, sLast, sOps,
                   sDigested, sSubmitted>>
    /\ UNCHANGED notReqVars

\* await generateHourlySummaries, which reads the day's rows and writes the
\* summary table only
ReqHourly(p) ==
    /\ qPc[p] = "store"
    /\ qPending[p] = <<>>
    /\ sSummaries' = generateHourlySummaries(sTelemetry, sSummaries, ReqSiteId, ReqDay).table
    /\ qPc' = [qPc EXCEPT ![p] = "digest"]
    /\ UNCHANGED <<qInterval, qPending, qDigest>>
    /\ UNCHANGED <<sSites, sSeed, sAnchorEnabled, sTelemetry, sDigests, sLast, sOps,
                   sDigested, sSubmitted>>
    /\ UNCHANGED notReqVars

\* generateAndStoreDigest up to its upsert: await telemetry.findMany inside
\* generateDigestArtifacts, then the digest is built from the rows read
ReqDigestRead(p) ==
    /\ qPc[p] = "digest"
    /\ \E artifacts \in {generateDigestArtifacts(sTelemetry, ReqSiteId, ReqDay,
                                                  sSites[ReqSiteId])} :
        IF artifacts.kind = "thrown"
        THEN /\ qPc' = [qPc EXCEPT ![p] = "failed"]
             /\ UNCHANGED qDigest
        ELSE /\ qPc' = [qPc EXCEPT ![p] = "write"]
             /\ qDigest' = [qDigest EXCEPT ![p] = artifacts.json]
    /\ UNCHANGED <<qInterval, qPending>>
    /\ UNCHANGED storeVars
    /\ UNCHANGED notReqVars

\* await dailyDigest.upsert; the handler then replies
ReqDigestWrite(p) ==
    /\ qPc[p] = "write"
    /\ sDigests' = upsertDigest(sDigests, qDigest[p])
    /\ qPc' = [qPc EXCEPT ![p] = "done"]
    /\ UNCHANGED <<qInterval, qPending, qDigest>>
    /\ UNCHANGED <<sSites, sSeed, sAnchorEnabled, sTelemetry, sSummaries, sLast, sOps,
                   sDigested, sSubmitted>>
    /\ UNCHANGED notReqVars

\* both requests received: each handler has found the site and parsed its
\* interval query parameter
InitReq ==
    /\ sSites = [id \in StoreSiteIds |-> SchemaSite(2000, <<>>, 0)]
    /\ sAnchorEnabled = FALSE
    /\ StoreEmpty
    /\ qPc = [p \in Requests |-> "delete"]
    /\ qInterval \in [Requests -> StoreIntervals]
    /\ qPending = [p \in Requests |-> <<>>]
    /\ qDigest = [p \in Requests |-> NoDigest]
    /\ MerkleIdle /\ InitAnchorIdle /\ TelemetryIdle /\ TwinIdle /\ BatchIdle /\ HashIdle
    /\ LoopIdle

NextReq ==
    \E p \in Requests :
        \/ ReqDelete(p)
        \/ ReqUpsert(p)
        \/ ReqHourly(p)
        \/ ReqDigestRead(p)
        \/ ReqDigestWrite(p)

SpecReq == InitReq /\ [][NextReq]_vars

-----------------------------------------------------------------------------
(* Loop specification: the while loop of TelemetryGenerator.generateTelemetry *)
(* for one day, one pass at a time, with the interval as each caller derives  *)
(* it from its input.                                                         *)

\* endOfDay.setUTCHours(23, 59, 59, 999), in milliseconds from the start of the day
DayEndMs == 86399999

\* the interval query parameter of POST /sites/:id/generate
RouteArgs ==
    {NoArg, Arg(<<"7", "2", "0", "m">>), Arg(<<"4", "8", "0", "m">>), Arg(<<"0", "m">>),
     Arg(<<"a", "b", "c">>), Arg(<<"-", "5", "m">>)}

\* the --interval option of the backfill script
BackfillArgs == {NoArg, Arg(<<"7", "2", "0">>), Arg(<<"0">>), Arg(<<"-", "5">>)}

\* the --interval option of the live script, in seconds
LiveArgs == {NoArg, Arg(<<"2", "8", "8", "0", "0">>)}

\* INTERVAL_SECONDS of the environment, read when --interval is absent
LiveEnvs == {43200, 0}

LoopCallers ==
    { [name |-> "route", arg |-> a, env |-> 0] : a \in RouteArgs }
        \cup { [name |-> "backfill", arg |-> a, env |-> 0] : a \in BackfillArgs }
        \cup { [name |-> "live", arg |-> a, env |-> e] : a \in LiveArgs, e \in LiveEnvs }

\* what a caller passes as intervalMinutes, in the milliseconds addMinutes
\* adds for it: the route parses its query parameter, the scripts their
\* option, and the live script divides its seconds by 60
callerIntervalMs(caller) ==
    CASE caller.name = "route" ->
            orElse(parseInt(replaceFirst(IF caller.arg.given THEN caller.arg.s
                                         ELSE <<"5", "m">>, <<"m">>)),
                   Num(5)).v * 60000
      [] caller.name = "backfill" ->
            orElse(IF caller.arg.given THEN parseInt(caller.arg.s) ELSE Undefined,
                   Num(5)).v * 60000
      [] OTHER ->
            orElse(IF caller.arg.given THEN parseInt(caller.arg.s) ELSE Undefined,
                   Num(caller.env)).v * 1000

\* generateDayTelemetry has called generateTelemetry for the day:
\* currentDate = new Date(startDate)
InitLoop ==
    /\ lPc = "loop"
    /\ lCaller \in LoopCallers
    /\ lStepMs = callerIntervalMs(lCaller)
    /\ lEndMs = DayEndMs
    /\ lCurrentMs = 0
    /\ lRecords = <<>>
    /\ MerkleIdle /\ InitAnchorIdle /\ TelemetryIdle /\ TwinIdle /\ StoreIdle
    /\ BatchIdle /\ HashIdle /\ ReqIdle

\* one test of `currentDate < endDate` and, when it holds, one pass of the
\* body; the array of records cannot grow beyond MaxPasses
LoopStep ==
    /\ lPc = "loop"
    /\ IF lCurrentMs < lEndMs
       THEN IF Len(lRecords) < MaxPasses
            THEN /\ lRecords' = Append(lRecords, lCurrentMs)
                 /\ lCurrentMs' = lCurrentMs + lStepMs
                 /\ UNCHANGED lPc
            ELSE /\ lPc' = "exhausted"
                 /\ UNCHANGED <<lRecords, lCurrentMs>>
       ELSE /\ lPc' = "returned"
            /\ UNCHANGED <<lRecords, lCurrentMs>>
    /\ UNCHANGED <<lCaller, lStepMs, lEndMs>>
    /\ UNCHANGED notLoopVars

NextLoop == LoopStep

\* the loop is synchronous code: it takes its next step whenever it has one
SpecLoopFair == InitLoop /\ [][NextLoop]_vars /\ WF_vars(NextLoop)

-----------------------------------------------------------------------------
(* Hash specification: storeTelemetry builds the stored row of each of two *)
(* records.                                                                *)

\* records = telemetryData.map(data => ({ ..., rowHash: hashTelemetryRow(...) }))
HashStore ==
    /\ hRows # <<>>
    /\ hHashes = <<>>
    /\ hHashes' = [i \in 1..2 |-> telemetryRow(hRows[i].siteId, hRows[i].data).rowHash]
    /\ UNCHANGED hRows
    /\ UNCHANGED notHashVars

NextHash == HashStore

InitHashRun ==
    InitHash /\ MerkleIdle /\ InitAnchorIdle /\ TelemetryIdle /\ TwinIdle /\ StoreIdle
    /\ BatchIdle
    /\ ReqIdle
    /\ LoopIdle

SpecHash == InitHashRun /\ [][NextHash]_vars

-----------------------------------------------------------------------------
(* Claims about the Merkle digest builder *)

\* C1: buildMerkleRoot is invariant under permutation of its input: every
\* root built from a reordering of the list equals the root first built.
C1_PermutationInvariant ==
    (mFirst.kind # "none") => (mLast = mFirst)

\* Two builds of differently ordered lists of three or more leaves.
C1_Witness ==
    /\ mFirst.kind = "returned"
    /\ mImpl = "util"
    /\ Len(mLastInput) >= 3
    /\ mLastInput # mFirstInput
    /\ sortStrings(mLastInput) # mLastInput

\* C2: building a Merkle root from zero hashes fails with an error; it never
\* returns a degenerate root (the hash of the empty string, or "").
C2_EmptyInputIsError ==
    (mLast.kind # "none" /\ mLastInput = <<>>) => (mLast.kind = "thrown")

\* C24: the Merkle root of a list of exactly one hash is that hash,
\* unchanged.
C24_SingleHashIsRoot ==
    (mLast.kind # "none" /\ Len(mLastInput) = 1) => mLast = Returned(mLastInput[1])

\* a one-hash list built by the util builder
C24_Witness ==
    /\ mLast.kind = "returned"
    /\ mImpl = "util"
    /\ Len(mLastInput) = 1
    /\ Len(mLastInput[1]) = 2

\* the list in lexicographic order: the arrangement of its entries in which
\* no entry is less than the one before it
RefSorted(hashes) ==
    CHOOSE s \in [1..Len(hashes) -> {hashes[i] : i \in 1..Len(hashes)}] :
        /\ \A x \in {hashes[i] : i \in 1..Len(hashes)} :
              Cardinality({i \in 1..Len(hashes) : s[i] = x})
                = Cardinality({i \in 1..Len(hashes) : hashes[i] = x})
        /\ \A i \in 1..(Len(hashes) - 1) : ~StrLess(s[i + 1], s[i])

\* the next level of the reference construction: entry i combines entries
\* 2i-1 and 2i, the last entry of an odd level being paired with itself
RefLevel(level) ==
    [i \in 1..((Len(level) + 1) \div 2) |->
        sha256(level[2 * i - 1]
               \o level[IF 2 * i <= Len(level) THEN 2 * i ELSE 2 * i - 1])]

RECURSIVE RefRoot(_, _)
\* the root and the number of levels built on top of `level`
RefRoot(level, built) ==
    IF Len(level) = 1 THEN [root |-> level[1], levels |-> built]
    ELSE RefRoot(RefLevel(level), built + 1)

\* ceil(log2(n)): the least k with 2^k >= n
CeilLog2(n) == CHOOSE k \in 0..n : 2 ^ k >= n /\ \A j \in 0..(k - 1) : 2 ^ j < n

RECURSIVE loopPasses(_)
\* passes of `while (currentLevel.length > 1)` starting from `level`
loopPasses(level) ==
    IF Len(level) <= 1 THEN 0 ELSE 1 + loopPasses(merkleLevel(level))

\* C25: for two or more hashes the root built equals the reference
\* construction (sort, then combine adjacent pairs level by level, the last
\* entry of an odd level paired with itself), and the loop makes
\* ceil(log2(n)) passes.
C25_MatchesReferenceConstruction ==
    (mLast.kind # "none" /\ Len(mLastInput) >= 2)
    => /\ mLast = Returned(RefRoot(RefSorted(mLastInput), 0).root)
       /\ loopPasses(sortStrings(mLastInput)) = CeilLog2(Len(mLastInput))
       /\ RefRoot(RefSorted(mLastInput), 0).levels = CeilLog2(Len(mLastInput))

\* an odd number of distinct hashes, given out of order
C25_Witness ==
    /\ mLast.kind = "returned"
    /\ Len(mLastInput) = 3
    /\ Cardinality({mLastInput[i] : i \in 1..3}) = 3
    /\ StrLess(mLastInput[3], mLastInput[1])

-----------------------------------------------------------------------------
(* Claims about the anchor coordinator *)

Succeeded(r) == r.kind = "returned" /\ r.value.success

FailedAttempts == { i \in 1..Len(aResults) : ~Succeeded(aResults[i]) }

\* C3: anchorDigestWithRetry returns the first successful result: a success
\* at attempt k is returned as it is, after exactly k anchor calls and k-1
\* backoff sleeps, with k <= maxRetries, and no call follows a success.
C3_FirstSuccessReturned ==
    /\ \A i \in 1..Len(aResults) :
          Succeeded(aResults[i]) =>
            /\ i = Len(aResults)
            /\ aPc = "done"
            /\ aResult = aResults[i]
    /\ (aPc = "done" /\ Succeeded(aResult)) =>
          LET k == Len(aResults)
          IN  /\ k >= 1 /\ k <= aMaxRetries
              /\ aResult = aResults[k]
              /\ \A i \in 1..(k - 1) : ~Succeeded(aResults[i])
              /\ Len(aSleeps) = k - 1

\* fail, fail, succeed: the third attempt's result and two backoff sleeps.
C3_Witness ==
    /\ aPc = "done"
    /\ Succeeded(aResult)
    /\ Len(aResults) = 3
    /\ Len(aSleeps) = 2
    /\ aResult.value.adapterTxId = "tx-2"

\* C4: when every anchor call fails, anchorDigestWithRetry makes exactly
\* maxRetries attempts (3 by default) and returns success = false with a
\* message holding the attempt count and the last attempt's error.
C4_ExhaustedFailure ==
    (aPc = "done" /\ ~Succeeded(aResult)) =>
        /\ aResult.kind = "returned"
        /\ Len(aResults) = aMaxRetries
        /\ FailedAttempts = 1..aMaxRetries
        /\ aResult.value.success = FALSE
        /\ Len(aResult.value.error) >= 4
        /\ aResult.value.error[2] = ToString(aMaxRetries)
        /\ aMaxRetries >= 1 =>
              SubSeq(aResult.value.error, 4, Len(aResult.value.error))
                = aResults[aMaxRetries].value.error

\* Three failed attempts under the default budget, the last one a transport
\* error after an HTTP error.
C4_Witness ==
    /\ aPc = "done"
    /\ ~Succeeded(aResult)
    /\ aMaxRetries = DefaultMaxRetries
    /\ Len(aResults) = 3
    /\ aResults[2].value.error = <<"response.data.error">>
    /\ aResults[3].value.error = <<"axios error.message">>

\* C5: every anchor request reaches a terminal state and reports it as a
\* returned value: neither anchorDigest nor anchorDigestWithRetry throws,
\* whatever the external call does, and a failure is returned only once
\* the retry budget is used up.
C5_TerminatesWithoutThrowing ==
    /\ [](aDirect.kind # "thrown" /\ aResult.kind # "thrown")
    /\ []((aPc = "done" /\ ~Succeeded(aResult)) => Len(aResults) >= aMaxRetries)
    /\ ((aPc # "idle") ~> (aPc = "done" /\ aResult.kind = "returned"))

\* A request that ended in failure after a thrown (non-axios) error.
C5_Witness ==
    /\ aPc = "done"
    /\ ~Succeeded(aResult)
    /\ aMaxRetries >= 2
    /\ aResults[1].value.error = <<"Unknown error">>
    /\ aResults[2].value.error = <<"error.message">>

\* C6: a backoff sleep is started only after a failed attempt that is not
\* the last one (never after a success or the last attempt), and the sleep
\* after failed attempt n lasts 2^n seconds.
C6_BackoffBetweenAttempts ==
    /\ Len(aSleeps) =
          Cardinality({ i \in FailedAttempts : i < aMaxRetries })
    /\ \A n \in 1..Len(aSleeps) :
          /\ aSleeps[n] = (2 ^ n) * 1000
          /\ n <= Len(aResults)
          /\ ~Succeeded(aResults[n])
    /\ (aPc = "sleep") => (Len(aSleeps) = Len(aResults) /\ aAttempt < aMaxRetries)

\* Three failed attempts of four: sleeps of 2 s, 4 s and 8 s.
C6_Witness ==
    /\ aMaxRetries = 4
    /\ aPc = "sleep"
    /\ aSleeps = <<2000, 4000, 8000>>

\* C7: once the caller has signalled cancellation, no further anchor attempt
\* is started and a backoff sleep in progress is abandoned (the loop ends
\* without waking into another attempt).
C7_CancellationHonored ==
    [][aCancel => (Len(aResults') = Len(aResults) /\ ~(aPc = "sleep" /\ aPc' = "attempt"))]_vars

-----------------------------------------------------------------------------
(* Claims about the PV simulation model *)

\* the AC capacity the site configuration states
ConfiguredAcCapacity(site) ==
    IF IsNum(site.capacityAcKW) THEN site.capacityAcKW ELSE site.capacityAcKw

\* the timestamp lies in a configured window whose day pattern matches
InsideMatchingWindow(site, date) ==
    /\ site.outageWindows.t = "array"
    /\ \E i \in 1..Len(site.outageWindows.items) :
          LET w == site.outageWindows.items[i]
              start == parseTime(w.start)
              end == parseTime(w.end)
          IN  /\ IsNum(start) /\ IsNum(end)
              /\ start.v <= date.hour * 60 + date.minute
              /\ date.hour * 60 + date.minute <= end.v
              /\ matchesDayPattern(date.dow, w.days)

\* C8: every record generated has 0 <= acPowerKw <= the site's configured AC
\* capacity and acEnergyKwh >= 0, and calculateAcPower never returns a value
\* above the configured AC capacity.
C8_AcPowerWithinCapacity ==
    /\ (tOut.kind = "returned") =>
          /\ NumGeq(tOut.rec.acPowerKw, Num(0))
          /\ NumLeq(tOut.rec.acPowerKw, ConfiguredAcCapacity(tSite))
          /\ NumGeq(tOut.rec.acEnergyKwh, Num(0))
    /\ (tAc.kind = "returned") =>
          NumLeq(tAc.result, ConfiguredAcCapacity(tSite))

\* C9: outage takes precedence over curtailment: a record for a timestamp
\* inside a matching outage window has status OUTAGE whatever the
\* curtailment probability and draw, and CURTAILED is returned only when no
\* outage is active.
C9_OutageBeforeCurtailment ==
    (tOut.kind = "returned") =>
        /\ InsideMatchingWindow(tSite, tOut.rec.tsUtc) => tOut.rec.status = "OUTAGE"
        /\ tOut.rec.status = "CURTAILED" => ~InsideMatchingWindow(tSite, tOut.rec.tsUtc)

\* An OUTAGE record at noon under a weekday-list window, at a site and seed
\* whose curtailment draw is below the curtailment probability.
C9_Witness ==
    /\ tOut.kind = "returned"
    /\ tOut.rec.status = "OUTAGE"
    /\ tOut.rec.tsUtc.hour = 12
    /\ tOut.rec.tsUtc.dow = 1
    /\ tSite.curtailmentPct = 128
    /\ nextValue(tRng.state) < tSite.curtailmentPct

\* C10: a record whose status is OUTAGE or CURTAILED has acPowerKw = 0 and
\* acEnergyKwh = 0 whatever the irradiance and temperature; a non-zero
\* power occurs only with status OK.
C10_NoPowerUnlessOk ==
    (tOut.kind = "returned") =>
        /\ tOut.rec.status \in {"OK", "OUTAGE", "CURTAILED"}
        /\ tOut.rec.status \in {"OUTAGE", "CURTAILED"} =>
              (tOut.rec.acPowerKw = Num(0) /\ tOut.rec.acEnergyKwh = Num(0))
        /\ tOut.rec.acPowerKw # Num(0) => tOut.rec.status = "OK"

\* A CURTAILED record under positive irradiance.
C10_Witness ==
    /\ tOut.kind = "returned"
    /\ tOut.rec.status = "CURTAILED"
    /\ NumGeq(tOut.rec.poaIrrWm2, Num(1000))
    /\ tOut.rec.acPowerKw = Num(0)

-----------------------------------------------------------------------------
(* Claims about the random generator *)

C12_DrawAdvancesState ==
    [][\A i \in 1..2 :
          wRng'[i].draws > wRng[i].draws => wRng'[i].state # wRng[i].state]_vars

-----------------------------------------------------------------------------
(* Claims about the stored telemetry, summaries and digests *)

\* rows i < j of the telemetry table with the same (site, timestamp)
DuplicateKeys ==
    { <<i, j>> \in (1..Len(sTelemetry)) \X (1..Len(sTelemetry)) :
        /\ i < j
        /\ sTelemetry[i].siteId = sTelemetry[j].siteId
        /\ sTelemetry[i].tsUtc = sTelemetry[j].tsUtc }

\* C13: telemetry persistence is an idempotent upsert keyed by (site,
\* timestamp): there is never more than one stored row per (site,
\* timestamp), and a generation run that repeats the run before it (same
\* seed, site, day and interval, the first having returned) leaves every
\* stored row, values and row hash, as the first run left it.
C13_UpsertIdempotent ==
    /\ [](DuplicateKeys = {})
    /\ [][(sLast'.op = "generate" /\ sLast'.again /\ sOps' = sOps + 1)
            => (sLast'.kind = "returned" /\ sTelemetry' = sTelemetry)]_vars

\* a day generated twice over, with rows of both sites in the table
C13_Witness ==
    /\ sLast.op = "generate" /\ sLast.again /\ sLast.kind = "returned"
    /\ sOps = 3
    /\ \E i, j \in 1..Len(sTelemetry) : sTelemetry[i].siteId # sTelemetry[j].siteId
    /\ \E i \in 1..Len(sTelemetry) :
          sTelemetry[i].siteId = sLast.siteId /\ sTelemetry[i].tsUtc.hour = 12

\* C14: a digest requested for a site-day that has no telemetry rows fails
\* with an error, and the failed request leaves the table of daily digests
\* exactly as it was.
C14_NoRowsNoDigest ==
    [][(/\ sLast'.op = "digest"
        /\ sOps' = sOps + 1
        /\ findManyDay(sTelemetry, sLast'.siteId, sLast'.day) = <<>>)
        => (sLast'.kind = "thrown" /\ sDigests' = sDigests)]_vars

\* a digest request that failed for a site-day whose rows are gone while an
\* earlier digest of that site-day is stored
C14_Witness ==
    /\ sLast.op = "digest" /\ sLast.kind = "thrown"
    /\ findManyDay(sTelemetry, sLast.siteId, sLast.day) = <<>>
    /\ digestAt(sDigests, sLast.siteId, sLast.day) # {}

\* the row hashes of a site-day as they are stored now, in sorted order
StoredHashes(siteId, day) == sortStrings(rowHashes(findManyDay(sTelemetry, siteId, day)))

\* C15: verifyDigestIntegrity returns a boolean and changes no table; it
\* returns true exactly when a digest of the site-day is stored and the
\* site-day's stored row hashes are the ones that were digested, hence true
\* while the rows are unchanged since the digest, false after insertions,
\* deletions or row-hash changes that leave them different, and false when
\* there is no digest.
C15_VerifyReportsIntegrity ==
    [][(sLast'.op = "verify" /\ sOps' = sOps + 1)
        => (/\ sLast'.ok \in BOOLEAN
            /\ UNCHANGED <<sTelemetry, sSummaries, sDigests>>
            /\ sLast'.ok =
                  (/\ sDigested[sLast'.siteId][sLast'.day].has
                   /\ StoredHashes(sLast'.siteId, sLast'.day)
                        = sDigested[sLast'.siteId][sLast'.day].hashes))]_vars

\* a verification that returned false for a digested site-day which still
\* has as many rows as were digested, one of them with another row hash
C15_Witness ==
    /\ sLast.op = "verify" /\ ~sLast.ok
    /\ sDigested[sLast.siteId][sLast.day].has
    /\ Len(StoredHashes(sLast.siteId, sLast.day))
         = Len(sDigested[sLast.siteId][sLast.day].hashes)
    /\ Len(StoredHashes(sLast.siteId, sLast.day)) >= 2

\* the anchor fields of the stored digest of a site-day; those of a digest
\* that is not stored are null
AnchorOf(table, siteId, day) ==
    IF digestAt(table, siteId, day) = {} THEN <<"", "">>
    ELSE LET row == table[CHOOSE i \in digestAt(table, siteId, day) : TRUE]
         IN  <<row.anchorAdapterTxId, row.anchorTxHash>>

\* C16: the anchor fields of a stored digest change only in an anchor
\* request for that site-day whose anchor call succeeded, and then to the
\* identifiers of its result; an anchor request that failed after its
\* retries leaves the digests and the telemetry unchanged; generating or
\* regenerating a digest does not touch the anchor fields.
C16_AnchorFieldsOnlyOnSuccess ==
    [][/\ \A siteId \in StoreSiteIds, day \in StoreDays :
            AnchorOf(sDigests', siteId, day) # AnchorOf(sDigests, siteId, day)
            => /\ sLast'.op = "anchor" /\ sLast'.siteId = siteId /\ sLast'.day = day
               /\ sLast'.anchor.success
               /\ AnchorOf(sDigests', siteId, day)
                    = <<sLast'.anchor.adapterTxId, sLast'.anchor.txHash>>
       /\ (sLast'.op = "anchor" /\ sOps' = sOps + 1 /\ ~sLast'.anchor.success)
            => (sDigests' = sDigests /\ sTelemetry' = sTelemetry)]_vars

\* a digest regenerated after it was anchored, the anchor fields still set
C16_Witness ==
    /\ sLast.op = "digest" /\ sLast.kind = "returned" /\ sLast.again = FALSE
    /\ AnchorOf(sDigests, sLast.siteId, sLast.day) \in {<<"tx-1", "tx-1">>, <<"tx-2", "tx-2">>}

\* C17: hourly summaries are kept per (site, hour): a run of
\* generateHourlySummaries for one site leaves every stored summary of
\* every other site in the table as it was.
C17_SummariesPerSiteHour ==
    [][(sLast'.op = "hourly" /\ sOps' = sOps + 1)
        => \A i \in 1..Len(sSummaries) :
              sSummaries[i].siteId # sLast'.siteId
              => \E j \in 1..Len(sSummaries') : sSummaries'[j] = sSummaries[i]]_vars

\* C18: hourly aggregation is idempotent: a run of generateHourlySummaries
\* that repeats the run before it (same site and day, the telemetry not
\* changed in between) returns the same summaries and leaves the stored
\* summaries as the first run left them.
C18_HourlyIdempotent ==
    [][(sLast'.op = "hourly" /\ sLast'.again /\ sOps' = sOps + 1)
        => (sLast'.summaries = sLast.summaries /\ sSummaries' = sSummaries)]_vars

\* summaries of a populated day computed twice over
C18_Witness ==
    /\ sLast.op = "hourly" /\ sLast.again
    /\ Len(sLast.summaries) >= 2
    /\ \A k \in 1..Len(sLast.summaries) :
          \E i \in 1..Len(sSummaries) : sSummaries[i] = sLast.summaries[k]

-----------------------------------------------------------------------------
(* Claims about the batch scripts *)

\* the days a script works on for each site
DaysOf(script) ==
    IF script = "backfill" THEN {BackfillDays[k] : k \in 1..Len(BackfillDays)}
    ELSE {BatchDay}

\* C19: in a batch over several sites, an error in the generation,
\* aggregation, digest or anchoring of one site (or site-day) does not
\* abort the batch: no exception leaves the loop, and when the script has
\* reached the end of its list every site of the list that is in the site
\* table has been processed, on every day of the batch.
C19_BatchErrorIsolation ==
    /\ ~bAborted
    /\ BatchDone =>
         \A k \in 1..Len(bList) :
            bList[k] \in StoreSiteIds =>
              \A day \in DaysOf(bScript) :
                 \E i \in 1..Len(bVisited) :
                    bVisited[i].siteId = bList[k] /\ bVisited[i].day = day

\* a finished batch in which one site ended in an error and a site after it
\* was processed to the end
C19_Witness ==
    /\ BatchDone
    /\ \E i, j \in 1..Len(bVisited) :
          /\ i < j
          /\ bVisited[i].siteId # bVisited[j].siteId
          /\ bVisited[i].outcome = "error"
          /\ bVisited[j].outcome = "ok"

\* C20: the seed given to a site's generator depends on the site: the
\* generators of two different sites are constructed with different seeds.
C20_SeedDependsOnSite ==
    \A i, j \in 1..Len(bSeeds) :
        bSeeds[i].siteId # bSeeds[j].siteId => bSeeds[i].seed # bSeeds[j].seed

-----------------------------------------------------------------------------
(* Claims about the row hash *)

\* the site id, timestamp and status of two records are equal
SameLabels(a, b) ==
    /\ a.siteId = b.siteId
    /\ a.data.tsUtc = b.data.tsUtc
    /\ a.data.status = b.data.status

\* energy and power agree to 3 decimals, irradiance and temperature to 1
AgreeAtPrecision(a, b) ==
    /\ Rounded(a.data.acEnergyKwh) = Rounded(b.data.acEnergyKwh)
    /\ Rounded(a.data.acPowerKw) = Rounded(b.data.acPowerKw)
    /\ Rounded(a.data.poaIrrWm2) = Rounded(b.data.poaIrrWm2)
    /\ Rounded(a.data.tempC) = Rounded(b.data.tempC)

\* each hashed number is negative in both records or in neither
SameSigns(a, b) ==
    /\ Negative(a.data.acEnergyKwh) = Negative(b.data.acEnergyKwh)
    /\ Negative(a.data.acPowerKw) = Negative(b.data.acPowerKw)
    /\ Negative(a.data.poaIrrWm2) = Negative(b.data.poaIrrWm2)
    /\ Negative(a.data.tempC) = Negative(b.data.tempC)

\* C21 as stated: two records with equal site id, timestamp and status whose
\* energy and power agree to 3 decimals and whose irradiance and temperature
\* agree to 1 decimal have the same row hash.
C21_AgreeingValuesHashEqual ==
    (hHashes # <<>> /\ SameLabels(hRows[1], hRows[2])
        /\ AgreeAtPrecision(hRows[1], hRows[2]))
    => hHashes[1] = hHashes[2]

\* C21 amended: two such records have the same row hash when, in addition,
\* each hashed number has the same sign in both (a negative value that
\* rounds to zero is rendered with its minus sign).
C21_AgreeingRenderingsHashEqual ==
    (hHashes # <<>> /\ SameLabels(hRows[1], hRows[2])
        /\ AgreeAtPrecision(hRows[1], hRows[2]) /\ SameSigns(hRows[1], hRows[2]))
    => hHashes[1] = hHashes[2]

\* two records hashed whose energies differ beyond the third decimal and
\* whose temperatures differ beyond the first
C21_Witness ==
    /\ hHashes # <<>>
    /\ SameLabels(hRows[1], hRows[2])
    /\ AgreeAtPrecision(hRows[1], hRows[2]) /\ SameSigns(hRows[1], hRows[2])
    /\ hRows[1].data.acEnergyKwh # hRows[2].data.acEnergyKwh
    /\ hRows[1].data.tempC # hRows[2].data.tempC

\* C22: two records that differ, at the stated precision, in site id,
\* timestamp, energy, power, irradiance, temperature, wind speed or status
\* have different row hashes.
C22_SemanticChangeChangesHash ==
    (hHashes # <<>>
        /\ (~SameLabels(hRows[1], hRows[2]) \/ ~AgreeAtPrecision(hRows[1], hRows[2])
             \/ hRows[1].data.windMps # hRows[2].data.windMps))
    => hHashes[1] # hHashes[2]

\* C22 amended: two records that differ, at the stated precision, in site
\* id, timestamp, energy, power, irradiance, temperature or status have
\* different row hashes (the wind speed is not hashed).
C22_HashedFieldChangeChangesHash ==
    (hHashes # <<>>
        /\ (~SameLabels(hRows[1], hRows[2]) \/ ~AgreeAtPrecision(hRows[1], hRows[2])))
    => hHashes[1] # hHashes[2]

\* two records hashed that differ in their status only
C22_Witness ==
    /\ hHashes # <<>>
    /\ hRows[1].data.status # hRows[2].data.status
    /\ [hRows[1].data EXCEPT !.status = "OUTAGE"] = hRows[2].data
    /\ hRows[1].siteId = hRows[2].siteId

-----------------------------------------------------------------------------
(* Claims about the draws of the PV model *)

\* C23: when calculateIrradiance has just been called for a timestamp at
\* which the solar elevation is <= 0, it returned exactly 0 and the
\* generator is as it was before the call (nothing was drawn).
C23_NightIrradianceDrawsNothing ==
    (tIrr.kind = "returned" /\ tIrr.call = tCalls /\ ~SunAboveHorizon(tIrr.date))
    => (tIrr.result = Num(0) /\ tRng = tBefore)

\* calculateIrradiance called at night on a model that has drawn before
C23_Witness ==
    /\ tIrr.kind = "returned" /\ tIrr.call = tCalls
    /\ ~SunAboveHorizon(tIrr.date)
    /\ tOut.kind = "returned"
    /\ tRng.draws > 0

\* the generator after the three weather draws of generateTelemetry alone
AfterWeatherDraws(rng, date) ==
    calculateWindSpeed(
        calculateTemperature(calculateIrradiance(rng, date).rng, date).rng,
        date).rng

\* C26: when generateTelemetry has just returned a record for a timestamp
\* inside a matching outage window, the generator is as the weather draws
\* alone leave it: no draw was consumed for curtailment.
C26_NoCurtailmentDrawInOutage ==
    (tCalls > 0 /\ tIrr.call # tCalls /\ tOut.kind = "returned"
        /\ InsideMatchingWindow(tSite, tOut.rec.tsUtc))
    => tRng = AfterWeatherDraws(tBefore, tOut.rec.tsUtc)

\* an OUTAGE record at noon at a site with a curtailment probability, the
\* weather draws made
C26_Witness ==
    /\ tCalls > 0 /\ tIrr.call # tCalls /\ tOut.kind = "returned"
    /\ InsideMatchingWindow(tSite, tOut.rec.tsUtc)
    /\ tOut.rec.tsUtc.hour = 12
    /\ tSite.curtailmentPct = 128
    /\ tRng.draws > tBefore.draws

-----------------------------------------------------------------------------
(* Claims about the API routes *)

-----------------------------------------------------------------------------
(* Claims about the generation loop *)

\* the records are start, start + interval, ... strictly before end, each
\* once and in increasing order
OnePerTimestamp ==
    /\ \A i \in 1..Len(lRecords) :
          lRecords[i] = (i - 1) * lStepMs /\ lRecords[i] < lEndMs
    /\ Len(lRecords) * lStepMs >= lEndMs
    /\ \A i \in 1..(Len(lRecords) - 1) : lRecords[i] < lRecords[i + 1]

\* the timestamps pushed so far are strictly increasing and before end
IncreasingBeforeEnd ==
    /\ \A i \in 1..Len(lRecords) : lRecords[i] < lEndMs
    /\ \A i \in 1..(Len(lRecords) - 1) : lRecords[i] < lRecords[i + 1]

-----------------------------------------------------------------------------
(* Claims about anchoring when it is disabled *)

\* the result anchorDigest gives without sending a request
DisabledResult == ResultReturned(AnchorFailure(<<"Anchoring is disabled">>))

\* C30: with anchoring disabled no request is sent, yet every attempt of
\* anchorDigestWithRetry counts as failed: the backoff sleep of 2^n seconds
\* follows each attempt n but the last, all maxRetries attempts are made,
\* and the call returns success = false with the error
\* "Failed after <maxRetries> attempts: Anchoring is disabled"
C30_DisabledStillRetries ==
    ~aEnabled =>
        /\ aPosts = 0
        /\ \A i \in 1..Len(aResults) : aResults[i] = DisabledResult
        /\ aSleeps = [n \in 1..Cardinality({ i \in 1..Len(aResults) : i < aMaxRetries })
                        |-> (2 ^ n) * 1000]
        /\ (aPc = "done") =>
              /\ Len(aResults) = aMaxRetries
              /\ aResult.kind = "returned"
              /\ aResult.value.success = FALSE
              /\ aResult.value.adapterTxId = ""
              /\ aMaxRetries >= 1 =>
                    aResult.value.error
                      = <<"Failed after ", ToString(aMaxRetries), " attempts: ",
                          "Anchoring is disabled">>

\* Three attempts with anchoring disabled, the sleeps of 2 s and 4 s between
\* them, and the failure returned
C30_Witness ==
    /\ ~aEnabled
    /\ aPc = "done"
    /\ aMaxRetries = DefaultMaxRetries
    /\ Len(aResults) = 3
    /\ aSleeps = <<2000, 4000>>
    /\ aPosts = 0
    /\ aResult.value.error
          = <<"Failed after ", "3", " attempts: ", "Anchoring is disabled">>

====
